---- MODULE Spec2Model ----
(***************************************************************************)
(* A model of eli5_pandas: the field type detector (field_detector.py),    *)
(* the statistics calculator (statistics.py), the result records           *)
(* (models.py), the DataAnalyzer (analyzer.py) that drives them, and the   *)
(* summary of a result (reporter.py, cli.py).                              *)
(*                                                                         *)
(* Representation.                                                         *)
(*   - An optional value is a sequence: None is <<>>, a present value v is *)
(*     <<v>>.                                                              *)
(*   - A cell is a record [t, s, n]: t is the kind of Python object in the *)
(*     cell ("na" a missing marker, "str", "int", "float", "bool", "ts" a  *)
(*     Timestamp), s its text (for "str", and the marker's text for "na"), *)
(*     n its number.  Numbers are kept in HALVES: n = 2 * value, so 2.5 is *)
(*     5 and the integer 7 is 14.  A bool holds n = 2 (True) or 0 (False), *)
(*     the number pandas coerces it to.  A Timestamp holds a day index.    *)
(*   - A column name is a sequence of one-character strings, so that the   *)
(*     regular expressions of _is_id_field are computed, not tabulated.    *)
(*   - A pandas Series is [name, dtype, cells].                            *)
(***************************************************************************)
EXTENDS Integers, Sequences, FiniteSets, TLC

VARIABLES
    disk,       \* the file system: path -> dataset, or None for a path that does not exist
    data,       \* DataAnalyzer._data: None or the loaded DataFrame
    result,     \* the AnalysisResult the caller holds from its last successful analyze_file
    json_file,  \* content of the JSON file written by save_analysis_to_json, or None
    arg_series, \* a Series the caller holds for direct calls of the detector and the calculator, or None
    ret,        \* what the most recent call did: [op, raised, val]
    np_random,  \* the state of numpy's global random generator
    hist,       \* history: the path of the last analyze_file call whose _load_data returned
    analyzers,  \* the _data of each DataAnalyzer that threads share or own
    threads     \* the analyze_file call of each thread: where it stands and what it holds

vars == <<disk, data, result, json_file, arg_series, ret, np_random, hist, analyzers, threads>>

None == <<>>
Some(v) == <<v>>

(***************************************************************************)
(* Bounds of the model.                                                    *)
(***************************************************************************)
MaxRows == 2
MaxCols == 2
\* The number of states of a random generator, and the number of them a
\* scenario starts from where the draws are not what is examined.
RngPeriod == 24
RngSeeds == 1

(***************************************************************************)
(* Cells.                                                                  *)
(***************************************************************************)
NaN == [t |-> "na", s |-> "nan", n |-> 0]
NaT == [t |-> "na", s |-> "NaT", n |-> 0]
\* Python's None in a column of objects
NoneCell == [t |-> "na", s |-> "None", n |-> 0]
StrCell(x) == [t |-> "str", s |-> x, n |-> 0]
IntCell(k) == [t |-> "int", s |-> "", n |-> 2 * k]
FloatCell(halves) == [t |-> "float", s |-> "", n |-> halves]
BoolCell(b) == [t |-> "bool", s |-> "", n |-> IF b THEN 2 ELSE 0]
TsCell(day) == [t |-> "ts", s |-> "", n |-> day]

\* pd.isna(value)
IsNa(c) == c.t = "na"

NotNa(c) == ~IsNa(c)

\* Series.dropna()
DropNa(cells) == SelectSeq(cells, NotNa)

\* Series.head(k)
HeadN(cells, k) == SubSeq(cells, 1, IF k < Len(cells) THEN k ELSE Len(cells))

\* Series.unique(): the distinct values in order of first appearance.  A
\* missing marker is a value like any other here (it is kept, once).
Unique(cells) ==
    LET first == {i \in 1..Len(cells) : \A j \in 1..(i - 1) : cells[j] # cells[i]}
    IN  [k \in 1..Cardinality(first) |->
            cells[CHOOSE i \in first : Cardinality({j \in first : j <= i}) = k]]

(***************************************************************************)
(* Text.  TLC treats a string as an atom, so what Python computes on the   *)
(* characters of a cell's text is given for the texts of the model:        *)
(*   "1" "0"        boolean-like and whole numbers                         *)
(*   "yes" "TRUE"   boolean-like, not numbers                              *)
(*   "7"            a whole number                                         *)
(*   "2.5"          a number that is not whole                             *)
(*   "abc" "A".."D" plain text                                             *)
(*   "2020-01-01" "2021-06-30"  ISO dates                                  *)
(*   UuidText       a canonical UUID                                       *)
(***************************************************************************)
UuidText == "123e4567-e89b-12d3-a456-426614174000"

\* The day index of the dates of the model (a Timestamp's n).
DateTexts == <<"2020-01-01", "2021-06-30">>

\* str(value)
StrOf(c) ==
    CASE c.t = "str"   -> c.s
      [] c.t = "na"    -> c.s
      [] c.t = "int"   -> ToString(c.n \div 2)
      [] c.t = "float" -> LET a == IF c.n < 0 THEN 0 - c.n ELSE c.n
                          IN  (IF c.n < 0 THEN "-" ELSE "") \o ToString(a \div 2)
                                \o (IF a % 2 = 0 THEN ".0" ELSE ".5")
      [] c.t = "bool"  -> IF c.n = 2 THEN "True" ELSE "False"
      [] c.t = "ts"    -> DateTexts[c.n] \o " 00:00:00"

\* str.lower().strip()
LowerStrip(s) ==
    CASE s = "TRUE"  -> "true"
      [] s = "True"  -> "true"
      [] s = "False" -> "false"
      [] s = "A" -> "a"
      [] s = "B" -> "b"
      [] s = "C" -> "c"
      [] s = "D" -> "d"
      [] OTHER   -> s

\* What pd.to_numeric(..., errors='coerce') makes of one text: Some(number in
\* halves), or None where the text is no number (the cell becomes NaN).
ParseNumber(s) ==
    CASE s = "0"   -> Some(0)
      [] s = "1"   -> Some(2)
      [] s = "7"   -> Some(14)
      [] s = "2.5" -> Some(5)
      [] OTHER     -> None

\* What pd.to_datetime makes of one text: Some(day index), or None where the
\* parser raises.  A text that is a number below 1000 is refused by pandas
\* ("Given date string not likely a datetime").
ParseDate(s) ==
    IF \E d \in 1..Len(DateTexts) : DateTexts[d] = s
    THEN Some(CHOOSE d \in 1..Len(DateTexts) : DateTexts[d] = s)
    ELSE None

\* uuid_pattern.match(text), field_detector.py:126-129
MatchesUuid(s) == s = UuidText

(***************************************************************************)
(* Column names, as sequences of characters.                               *)
(***************************************************************************)
LowerChar(ch) ==
    CASE ch = "I" -> "i"
      [] ch = "D" -> "d"
      [] ch = "U" -> "u"
      [] ch = "P" -> "p"
      [] ch = "K" -> "k"
      [] OTHER    -> ch

\* str.lower()
Lower(w) == [i \in 1..Len(w) |-> LowerChar(w[i])]

HasPrefix(w, x) == Len(w) >= Len(x) /\ SubSeq(w, 1, Len(x)) = x
HasSuffix(w, x) == Len(w) >= Len(x) /\ SubSeq(w, Len(w) - Len(x) + 1, Len(w)) = x
Contains(w, x) ==
    \E i \in 1..(Len(w) - Len(x) + 1) : SubSeq(w, i, i + Len(x) - 1) = x

\* re.match(id_patterns[k], column_name), field_detector.py:86-97
MatchesIdPattern(k, w) ==
    CASE k = 1  -> w = <<"i", "d">>
      [] k = 2  -> HasSuffix(w, <<"_", "i", "d">>)
      [] k = 3  -> HasPrefix(w, <<"i", "d", "_">>)
      [] k = 4  -> Contains(w, <<"i", "d", "e", "n", "t", "i", "f", "i", "e", "r">>)
      [] k = 5  -> HasSuffix(w, <<"k", "e", "y">>)
      [] k = 6  -> HasSuffix(w, <<"c", "o", "d", "e">>)
      [] k = 7  -> w = <<"u", "u", "i", "d">>
      [] k = 8  -> Contains(w, <<"u", "u", "i", "d">>)
      [] k = 9  -> w = <<"p", "k">>
      [] k = 10 -> HasSuffix(w, <<"p", "k">>)

\* name_matches, field_detector.py:100
NameMatches(w) == \E k \in 1..10 : MatchesIdPattern(k, w)

(***************************************************************************)
(* Numeric coercion.                                                       *)
(***************************************************************************)
NumOfTextAsZero(c) ==
    CASE c.t = "int"   -> Some(c.n)
      [] c.t = "float" -> Some(c.n)
      [] c.t = "bool"  -> Some(c.n)
      [] c.t = "str"   -> IF ParseNumber(c.s) = None THEN Some(0) ELSE ParseNumber(c.s)
      [] c.t = "ts"    -> Some(2 * c.n)
      [] c.t = "na"    -> None

\* One cell under pd.to_numeric(series, errors='coerce'): Some(halves) or None.
NumOf(c) ==
    CASE c.t = "int"   -> Some(c.n)
      [] c.t = "float" -> Some(c.n)
      [] c.t = "bool"  -> Some(c.n)
      [] c.t = "str"   -> ParseNumber(c.s)
      [] c.t = "ts"    -> Some(2 * c.n)
      [] c.t = "na"    -> None

IsNumber(c) == NumOf(c) # None

\* pd.to_numeric(series, errors='coerce').dropna(): the numbers that remain.
NumericValues(cells) ==
    LET kept == SelectSeq(cells, IsNumber)
    IN  [i \in 1..Len(kept) |-> NumOf(kept[i])[1]]

\* float(val).is_integer()
IsWhole(h) == h % 2 = 0

AllWhole(nums) == \A i \in 1..Len(nums) : IsWhole(nums[i])

(***************************************************************************)
(* FieldTypeDetector, field_detector.py                                    *)
(***************************************************************************)
FieldTypes ==
    {"string", "integer", "float", "boolean", "datetime", "categorical", "id", "unknown"}

\* The constructor's default categorical_threshold, 0.1, in tenths.
CategoricalThresholdTenths == 1

\* is_numeric_dtype(series)
IsNumericDtype(dtype) == dtype \in {"int64", "float64", "bool"}

\* FieldTypeDetector._is_id_field
IsIdFieldAlwaysInspectValues(series) ==
    LET non_null == DropNa(series.cells)
        total_count == Len(series.cells)
        unique_count == Len(Unique(non_null))
        nums == NumericValues(series.cells)
    IN  IF Len(non_null) = 0 THEN FALSE
        ELSE IF ~NameMatches(Lower(series.name)) THEN FALSE
        ELSE IF 10 * unique_count < 9 * total_count THEN FALSE
        ELSE IF series.dtype = "object"
                /\ \E i \in 1..Len(HeadN(non_null, 10)) : MatchesUuid(StrOf(non_null[i]))
             THEN TRUE
        ELSE IF IsNumericDtype(series.dtype) /\ Len(nums) > 1
                /\ \A i \in 1..Len(nums) : nums[i] >= 0
             THEN TRUE
        ELSE FALSE

IsIdField(series) ==
    LET non_null == DropNa(series.cells)
        total_count == Len(series.cells)
        unique_count == Len(Unique(non_null))
        nums == NumericValues(series.cells)
    IN  IF Len(non_null) = 0 THEN FALSE
        ELSE IF ~NameMatches(Lower(series.name)) THEN FALSE
        \* uniqueness_ratio < 0.9, with total_count > 0 here
        ELSE IF 10 * unique_count < 9 * total_count THEN FALSE
        ELSE IF series.dtype = "object"
                /\ \E i \in 1..Len(HeadN(non_null, 10)) : MatchesUuid(StrOf(non_null[i]))
             THEN TRUE
        \* min() >= 0 and max() < 1e12: every number of the model is below 1e12
        ELSE IF IsNumericDtype(series.dtype) /\ Len(nums) > 1
                /\ \A i \in 1..Len(nums) : nums[i] >= 0
             THEN TRUE
        ELSE TRUE

BoolPatterns ==
    {"true", "false", "yes", "no", "1", "0", "t", "f", "y", "n", "on", "off"}

IsBooleanAnyDtype(series) ==
    LET non_null == DropNa(series.cells)
    IN  IF Len(non_null) = 0 THEN FALSE
        ELSE IF series.dtype = "bool" THEN TRUE
        ELSE {LowerStrip(StrOf(non_null[i])) : i \in 1..Len(non_null)} \subseteq BoolPatterns

\* FieldTypeDetector._is_boolean
IsBoolean(series) ==
    LET non_null == DropNa(series.cells)
    IN  IF Len(non_null) = 0 THEN FALSE
        ELSE IF series.dtype = "bool" THEN TRUE
        ELSE IF series.dtype = "object"
             THEN {LowerStrip(StrOf(non_null[i])) : i \in 1..Len(non_null)} \subseteq BoolPatterns
        ELSE FALSE

\* FieldTypeDetector._can_parse_datetime: pd.to_datetime(value, errors='raise')
\* raises TypeError for a bool and ValueError for the texts ParseDate refuses.
CanParseDatetime(c) ==
    CASE c.t = "na"  -> FALSE
      [] c.t = "ts"  -> TRUE
      [] c.t = "str" -> ParseDate(c.s) # None
      [] OTHER       -> FALSE

IsDatetimeAtLeast(series) ==
    IF series.dtype = "datetime64" THEN TRUE
    ELSE IF series.dtype = "object"
    THEN LET non_null == DropNa(series.cells)
             sample_size == IF Len(non_null) < 100 THEN Len(non_null) ELSE 100
             sample == HeadN(non_null, sample_size)
             datetime_count == Cardinality({i \in 1..Len(sample) : CanParseDatetime(sample[i])})
         IN  IF sample_size = 0 THEN FALSE
             ELSE 10 * datetime_count >= 8 * sample_size
    ELSE FALSE

\* FieldTypeDetector._is_datetime
IsDatetime(series) ==
    IF series.dtype = "datetime64" THEN TRUE
    ELSE IF series.dtype = "object"
    THEN LET non_null == DropNa(series.cells)
             sample_size == IF Len(non_null) < 100 THEN Len(non_null) ELSE 100
             sample == HeadN(non_null, sample_size)
             datetime_count == Cardinality({i \in 1..Len(sample) : CanParseDatetime(sample[i])})
         IN  IF sample_size = 0 THEN FALSE
             \* datetime_count / sample_size > 0.8
             ELSE 10 * datetime_count > 8 * sample_size
    ELSE FALSE

IsIntegerNativeOnly(series) == series.dtype = "int64"

IsIntegerEveryValueCoerces(series) ==
    IF series.dtype = "int64" THEN TRUE
    ELSE LET non_null == NumericValues(series.cells)
         IN  IF Len(non_null) = 0 \/ Len(non_null) < Len(DropNa(series.cells)) THEN FALSE
             ELSE AllWhole(non_null)

\* FieldTypeDetector._is_integer
IsInteger(series) ==
    IF series.dtype = "int64" THEN TRUE
    ELSE LET non_null == NumericValues(series.cells)
         IN  IF Len(non_null) = 0 THEN FALSE ELSE AllWhole(non_null)

\* FieldTypeDetector._is_float
IsFloat(series) ==
    IF series.dtype = "float64" THEN TRUE
    ELSE LET non_null == NumericValues(series.cells)
         IN  IF Len(non_null) = 0 THEN FALSE ELSE ~AllWhole(non_null)

IsCategoricalStrict(series) ==
    LET non_null == DropNa(series.cells)
        uniq == Len(Unique(non_null))
    IN  IF Len(non_null) = 0 THEN FALSE
        ELSE IF 10 * uniq <= CategoricalThresholdTenths * Len(non_null) THEN TRUE
        ELSE IF series.dtype = "object" /\ 10 * uniq < 3 * Len(non_null) THEN TRUE
        ELSE FALSE

\* FieldTypeDetector._is_categorical
IsCategorical(series) ==
    LET non_null == DropNa(series.cells)
        uniq == Len(Unique(non_null))
    IN  IF Len(non_null) = 0 THEN FALSE
        \* unique_ratio <= self.categorical_threshold
        ELSE IF 10 * uniq <= CategoricalThresholdTenths * Len(non_null) THEN TRUE
        \* series.dtype == 'object' and unique_ratio <= 0.3
        ELSE IF series.dtype = "object" /\ 10 * uniq <= 3 * Len(non_null) THEN TRUE
        ELSE FALSE

\* The checks of detect_field_type in the order the code runs them, each with the
\* type it returns.
DetectorChain ==
    <<"id", "boolean", "datetime", "integer", "float", "categorical">>

\* Whether check k of the chain accepts the series.
Accepts(k, series) ==
    CASE k = 1 -> IsIdField(series)
      [] k = 2 -> IsBoolean(series)
      [] k = 3 -> IsDatetime(series)
      [] k = 4 -> IsInteger(series)
      [] k = 5 -> IsFloat(series)
      [] k = 6 -> IsCategorical(series)

\* FieldTypeDetector.detect_field_type
DetectFieldTypeIntegerBeforeBoolean(series) ==
    IF Len(DropNa(series.cells)) = 0 THEN "unknown"
    ELSE IF IsIdField(series) THEN "id"
    ELSE IF IsInteger(series) THEN "integer"
    ELSE IF IsBoolean(series) THEN "boolean"
    ELSE IF IsDatetime(series) THEN "datetime"
    ELSE IF IsFloat(series) THEN "float"
    ELSE IF IsCategorical(series) THEN "categorical"
    ELSE "string"

DetectFieldTypeNoEmptyCheck(series) ==
    IF IsIdField(series) THEN "id"
    ELSE IF IsBoolean(series) THEN "boolean"
    ELSE IF IsDatetime(series) THEN "datetime"
    ELSE IF IsInteger(series) THEN "integer"
    ELSE IF IsFloat(series) THEN "float"
    ELSE IF IsCategorical(series) THEN "categorical"
    ELSE "string"

DetectFieldType(series) ==
    IF Len(DropNa(series.cells)) = 0 THEN "unknown"
    ELSE IF IsIdField(series) THEN "id"
    ELSE IF IsBoolean(series) THEN "boolean"
    ELSE IF IsDatetime(series) THEN "datetime"
    ELSE IF IsInteger(series) THEN "integer"
    ELSE IF IsFloat(series) THEN "float"
    ELSE IF IsCategorical(series) THEN "categorical"
    ELSE "string"

(***************************************************************************)
(* Arithmetic on sequences of numbers.                                     *)
(***************************************************************************)
RECURSIVE Sum(_)
\* The sum, by halves of the sequence.
Sum(xs) ==
    IF Len(xs) = 0 THEN 0
    ELSE IF Len(xs) = 1 THEN xs[1]
    ELSE LET h == Len(xs) \div 2
         IN  Sum(SubSeq(xs, 1, h)) + Sum(SubSeq(xs, h + 1, Len(xs)))

\* The values in ascending order: place k holds the value v with fewer than k
\* values below it and at least k values not above it.
Sorted(xs) ==
    LET vals == {xs[i] : i \in 1..Len(xs)}
        below == [v \in vals |-> Cardinality({j \in 1..Len(xs) : xs[j] < v})]
        upto == [v \in vals |-> Cardinality({j \in 1..Len(xs) : xs[j] <= v})]
    IN  [k \in 1..Len(xs) |-> CHOOSE v \in vals : below[v] < k /\ k <= upto[v]]

\* round(p / q, 0) for q > 0: Python rounds half to even.
RoundHalfEven(p, q) ==
    LET a == IF p < 0 THEN 0 - p ELSE p
        f == a \div q
        r == a % q
        m == IF 2 * r < q THEN f
             ELSE IF 2 * r > q THEN f + 1
             ELSE IF f % 2 = 0 THEN f ELSE f + 1
    IN  IF p < 0 THEN 0 - m ELSE m

(***************************************************************************)
(* Python floats.  A float is [nan, n, d]: NaN, or the rational n / d.     *)
(*   min_value, max_value      n / 2                                       *)
(*   mean, median              n / 10000  (rounded to 4 decimals)          *)
(*   std_dev                   the sample VARIANCE n / d whose root, rounded *)
(*                             to 4 decimals, is the value; NaN for one value *)
(*   quartiles                 n / 8                                       *)
(*   missing_percentage, avg_length   n / 100  (rounded to 2 decimals)     *)
(*   top_values percentage     (count * 100) / total_count, unrounded      *)
(***************************************************************************)
Flt(n, d) == [nan |-> FALSE, n |-> n, d |-> d]
NaNFlt == [nan |-> TRUE, n |-> 0, d |-> 1]

(***************************************************************************)
(* StatisticsCalculator, statistics.py                                     *)
(***************************************************************************)
\* series.isna().sum()
MissingCountAfterCoercion(cells) == Len(cells) - Len(NumericValues(cells))

MissingCount(cells) == Len(cells) - Len(DropNa(cells))

\* round((missing_count / total_count) * 100 if total_count > 0 else 0, 2)
MissingPercentage(cells) ==
    IF Len(cells) > 0
    THEN Flt(RoundHalfEven(MissingCount(cells) * 10000, Len(cells)), 100)
    ELSE Flt(0, 100)

\* How often value v occurs in the cells.
CountOf(v, cells) == Cardinality({i \in 1..Len(cells) : cells[i] = v})

RECURSIVE InsertByCount(_, _, _)
InsertByCount(v, ranked, cells) ==
    IF ranked = <<>> THEN <<v>>
    ELSE IF CountOf(v, cells) > CountOf(ranked[1], cells) THEN <<v>> \o ranked
    ELSE <<ranked[1]>> \o InsertByCount(v, Tail(ranked), cells)

RECURSIVE RankByCount(_, _)
RankByCount(vals, cells) ==
    IF vals = <<>> THEN <<>>
    ELSE InsertByCount(vals[Len(vals)], RankByCount(SubSeq(vals, 1, Len(vals) - 1), cells), cells)

ValueCountsUnsorted(cells) == Unique(DropNa(cells))

\* The index of series.value_counts(): the non-missing values by descending
\* count, values of equal count in order of first appearance.
ValueCounts(cells) == RankByCount(Unique(DropNa(cells)), cells)

CalculateCategoricalStatsAllValues(series) ==
    LET cells == series.cells
        total_count == Len(cells)
        value_counts == ValueCounts(cells)
    IN  [kind |-> "categorical",
         unique_count |-> Len(Unique(cells)),
         top_values |->
            [i \in 1..Len(value_counts) |->
                [value |-> StrOf(value_counts[i]),
                 count |-> CountOf(value_counts[i], cells),
                 percentage |-> Flt(CountOf(value_counts[i], cells) * 100, total_count)]],
         missing_count |-> MissingCount(cells),
         missing_percentage |-> MissingPercentage(cells)]

\* StatisticsCalculator.calculate_categorical_stats
CalculateCategoricalStats(series) ==
    LET cells == series.cells
        total_count == Len(cells)
        value_counts == HeadN(ValueCounts(cells), 10)
    IN  [kind |-> "categorical",
         unique_count |-> Len(Unique(cells)),
         top_values |->
            [i \in 1..Len(value_counts) |->
                [value |-> StrOf(value_counts[i]),
                 count |-> CountOf(value_counts[i], cells),
                 percentage |-> Flt(CountOf(value_counts[i], cells) * 100, total_count)]],
         missing_count |-> MissingCount(cells),
         missing_percentage |-> MissingPercentage(cells)]

Quantile8LowerRank(k, sorted) == 4 * sorted[((k * (Len(sorted) - 1)) \div 4) + 1]

\* Series.quantile(k / 4) in eighths: linear interpolation at position
\* (k / 4) * (n - 1) of the sorted values.
Quantile8(k, sorted) ==
    LET pos4 == k * (Len(sorted) - 1)
        lo == pos4 \div 4
        fr == pos4 % 4
    IN  IF fr = 0 THEN 4 * sorted[lo + 1]
        ELSE 4 * sorted[lo + 1] + fr * (sorted[lo + 2] - sorted[lo + 1])

\* StatisticsCalculator.calculate_numerical_stats
CalculateNumericalStats(series) ==
    LET cells == series.cells
        non_null == NumericValues(cells)
        n == Len(non_null)
        sorted == Sorted(non_null)
        sum == Sum(non_null)
        sumsq == Sum([i \in 1..n |-> non_null[i] * non_null[i]])
    IN  IF n = 0
        THEN [kind |-> "numerical",
              min_value |-> None, max_value |-> None, mean |-> None, median |-> None,
              std_dev |-> None, quartiles |-> None,
              missing_count |-> MissingCount(cells),
              missing_percentage |-> MissingPercentage(cells)]
        ELSE [kind |-> "numerical",
              min_value |-> Some(Flt(sorted[1], 2)),
              max_value |-> Some(Flt(sorted[n], 2)),
              mean |-> Some(Flt(RoundHalfEven(sum * 10000, 2 * n), 10000)),
              median |-> Some(Flt(IF n % 2 = 1
                                  THEN sorted[(n + 1) \div 2] * 5000
                                  ELSE (sorted[n \div 2] + sorted[n \div 2 + 1]) * 2500,
                                  10000)),
              \* Series.std() divides by n - 1: NaN for a single value
              std_dev |-> Some(IF n = 1 THEN NaNFlt
                               ELSE Flt(n * sumsq - sum * sum, 4 * n * (n - 1))),
              quartiles |-> Some([q25 |-> Flt(Quantile8(1, sorted), 8),
                                  q50 |-> Flt(Quantile8(2, sorted), 8),
                                  q75 |-> Flt(Quantile8(3, sorted), 8)]),
              missing_count |-> MissingCount(cells),
              missing_percentage |-> MissingPercentage(cells)]

\* StatisticsCalculator.calculate_string_stats
CalculateStringStats(series) ==
    LET cells == series.cells
        string_series == [i \in 1..Len(cells) |-> StrOf(cells[i])]
        IsText(s) == s # "nan"
        non_null == SelectSeq(string_series, IsText)
        lengths == Sorted([i \in 1..Len(non_null) |-> Len(non_null[i])])
    IN  IF Len(non_null) = 0
        THEN [kind |-> "string",
              min_length |-> None, max_length |-> None, avg_length |-> None,
              unique_count |-> 0,
              missing_count |-> MissingCount(cells),
              missing_percentage |-> MissingPercentage(cells)]
        ELSE [kind |-> "string",
              min_length |-> Some(lengths[1]),
              max_length |-> Some(lengths[Len(lengths)]),
              avg_length |-> Some(Flt(RoundHalfEven(Sum(lengths) * 100, Len(lengths)), 100)),
              unique_count |-> Cardinality({non_null[i] : i \in 1..Len(non_null)}),
              missing_count |-> MissingCount(cells),
              missing_percentage |-> MissingPercentage(cells)]

\* One cell under pd.to_datetime(series, errors='coerce'): Some(day) or None (NaT).
DateOf(c) ==
    CASE c.t = "ts"  -> Some(c.n)
      [] c.t = "str" -> ParseDate(c.s)
      [] OTHER       -> None

IsDate(c) == DateOf(c) # None

\* pd.to_datetime(series, errors='coerce').dropna(): the days that remain.
DateValues(cells) ==
    LET kept == SelectSeq(cells, IsDate)
    IN  [i \in 1..Len(kept) |-> DateOf(kept[i])[1]]

\* StatisticsCalculator.calculate_datetime_stats
CalculateDatetimeStats(series) ==
    LET cells == series.cells
        non_null == Sorted(DateValues(cells))
    IN  IF Len(non_null) = 0
        THEN [kind |-> "datetime",
              min_date |-> None, max_date |-> None, unique_count |-> 0,
              missing_count |-> MissingCount(cells),
              missing_percentage |-> MissingPercentage(cells)]
        ELSE [kind |-> "datetime",
              min_date |-> Some(TsCell(non_null[1])),
              max_date |-> Some(TsCell(non_null[Len(non_null)])),
              unique_count |-> Cardinality({non_null[i] : i \in 1..Len(non_null)}),
              missing_count |-> MissingCount(cells),
              missing_percentage |-> MissingPercentage(cells)]

\* StatisticsCalculator.calculate_field_statistics: Some(statistics) or None
CalculateFieldStatistics(series, field_type) ==
    IF field_type = "categorical" THEN Some(CalculateCategoricalStats(series))
    ELSE IF field_type \in {"integer", "float"} THEN Some(CalculateNumericalStats(series))
    ELSE IF field_type = "string" THEN Some(CalculateStringStats(series))
    ELSE IF field_type = "datetime" THEN Some(CalculateDatetimeStats(series))
    ELSE IF field_type = "boolean" THEN Some(CalculateCategoricalStats(series))
    ELSE None

(***************************************************************************)
(* get_sample_values, field_detector.py                                    *)
(***************************************************************************)
\* max_samples, the default of get_sample_values
MaxSamples == 5

\* tolist() of the distinct values.  For a native datetime column the element
\* type depends on the pandas release: Timestamp objects (unique() gives a
\* DatetimeArray) or integer epoch counts (unique() gives a datetime64 ndarray).
ToListOutcomes(series, values) ==
    IF series.dtype = "datetime64"
    THEN {values, [i \in 1..Len(values) |-> IntCell(values[i].n)]}
    ELSE {values}

\* A random generator is a number of RngStates.  A draw without replacement
\* from n items is the permutation of 1..n that the generator's state numbers
\* (its digits in the factorial number system pick the items one by one), and
\* a draw moves the generator to its next state.
RngStates == 0..(RngPeriod - 1)
Advance(gen) == (gen + 1) % RngPeriod

\* The state of a generator made from a seed.
RandomState(seed) == (7 * seed + 3) % RngPeriod

RECURSIVE PermutationOf(_, _)
PermutationOf(gen, items) ==
    IF items = <<>> THEN <<>>
    ELSE LET m == Len(items)
             at == (gen % m) + 1
             rest == [i \in 1..(m - 1) |-> IF i < at THEN items[i] ELSE items[i + 1]]
         IN  <<items[at]>> \o PermutationOf(gen \div m, rest)

Permutation(gen, n) == PermutationOf(gen, [i \in 1..n |-> i])

\* Whether get_sample_values draws from the generator for the series.
DrawsSample(series) == Len(Unique(DropNa(series.cells))) > MaxSamples

\* The global generator after get_sample_values ran on each of the columns.
GeneratorAfterSampling(columns, gen) ==
    (gen + Cardinality({i \in 1..Len(columns) : DrawsSample(columns[i])})) % RngPeriod

SampleValueOutcomesWithReplacement(series, gen) ==
    LET non_null == DropNa(series.cells)
        unique_values == Unique(non_null)
    IN  IF Len(non_null) = 0 THEN {<<>>}
        ELSE IF Len(unique_values) <= MaxSamples THEN ToListOutcomes(series, unique_values)
        ELSE ToListOutcomes(series,
                 [i \in 1..MaxSamples |-> unique_values[((gen * i) % Len(unique_values)) + 1]])

\* Every list get_sample_values(series) can return with numpy's global
\* generator in state gen: np.random.choice draws max_samples of the distinct
\* values without replacement.
SampleValueOutcomes(series, gen) ==
    LET non_null == DropNa(series.cells)
        unique_values == Unique(non_null)
    IN  IF Len(non_null) = 0 THEN {<<>>}
        ELSE IF Len(unique_values) <= MaxSamples THEN ToListOutcomes(series, unique_values)
        ELSE ToListOutcomes(series,
                 [i \in 1..MaxSamples |-> unique_values[Permutation(gen, Len(unique_values))[i]]])

(***************************************************************************)
(* DataAnalyzer, analyzer.py                                               *)
(***************************************************************************)
AnalyzeFieldIdWithoutStats(series, column_name, sample_values) ==
    LET field_type == DetectFieldType(series)
    IN  [name |-> column_name,
         field_type |-> field_type,
         total_count |-> Len(series.cells),
         categorical_stats |->
            IF field_type \in {"categorical", "boolean"}
            THEN Some(CalculateCategoricalStats(series)) ELSE None,
         numerical_stats |->
            IF field_type \in {"integer", "float"}
            THEN Some(CalculateNumericalStats(series)) ELSE None,
         string_stats |->
            IF field_type = "string" THEN Some(CalculateStringStats(series)) ELSE None,
         datetime_stats |->
            IF field_type = "datetime" THEN Some(CalculateDatetimeStats(series)) ELSE None,
         sample_values |-> sample_values]

\* DataAnalyzer._analyze_field, given the list get_sample_values returned
AnalyzeField(series, column_name, sample_values) ==
    LET field_type == DetectFieldType(series)
    IN  [name |-> column_name,
         field_type |-> field_type,
         total_count |-> Len(series.cells),
         categorical_stats |->
            IF field_type = "categorical" THEN Some(CalculateCategoricalStats(series))
            ELSE IF field_type \in {"integer", "float"} THEN None
            ELSE IF field_type = "string" THEN None
            ELSE IF field_type = "datetime" THEN None
            ELSE IF field_type = "boolean" THEN Some(CalculateCategoricalStats(series))
            ELSE IF field_type = "id" THEN Some(CalculateCategoricalStats(series))
            ELSE None,
         numerical_stats |->
            IF field_type = "categorical" THEN None
            ELSE IF field_type \in {"integer", "float"} THEN Some(CalculateNumericalStats(series))
            ELSE None,
         string_stats |->
            IF field_type = "categorical" THEN None
            ELSE IF field_type \in {"integer", "float"} THEN None
            ELSE IF field_type = "string" THEN Some(CalculateStringStats(series))
            ELSE None,
         datetime_stats |->
            IF field_type = "categorical" THEN None
            ELSE IF field_type \in {"integer", "float"} THEN None
            ELSE IF field_type = "string" THEN None
            ELSE IF field_type = "datetime" THEN Some(CalculateDatetimeStats(series))
            ELSE None,
         sample_values |-> sample_values]

\* self._data[column]: the column of the frame with that label
ColumnNamed(df, column) ==
    df.columns[CHOOSE i \in 1..Len(df.columns) : df.columns[i].name = column]

FieldAnalysesOutcomesSkipEmpty(df, gen) ==
    LET NotEmpty(c) == Len(DropNa(c.cells)) > 0
        kept == SelectSeq(df.columns, NotEmpty)
        n == Len(kept)
        Outcomes(i) ==
            {AnalyzeField(kept[i], kept[i].name, sv) :
                sv \in SampleValueOutcomes(kept[i],
                                           GeneratorAfterSampling(SubSeq(kept, 1, i - 1), gen))}
    IN  {fs \in [1..n -> UNION {Outcomes(i) : i \in 1..n}] : \A i \in 1..n : fs[i] \in Outcomes(i)}

\* The field_analyses lists the loop of analyze_file can build for a frame, with
\* numpy's global generator in state gen at its start: one _analyze_field per
\* label of df.columns, in their order.
FieldAnalysesOutcomes(df, gen) ==
    LET n == Len(df.columns)
        Outcomes(i) ==
            {AnalyzeField(ColumnNamed(df, df.columns[i].name), df.columns[i].name, sv) :
                sv \in SampleValueOutcomes(ColumnNamed(df, df.columns[i].name),
                                           GeneratorAfterSampling(SubSeq(df.columns, 1, i - 1), gen))}
    IN  {fs \in [1..n -> UNION {Outcomes(i) : i \in 1..n}] : \A i \in 1..n : fs[i] \in Outcomes(i)}

\* DataAnalyzer._get_file_type: the lower-cased suffix without its dot
GetFileType(path) ==
    CASE path = "data.csv" -> "csv"
      [] path = "gone.csv" -> "csv"
      [] path = "other.xyz" -> "xyz"

\* datetime.now() at the time AnalysisResult is built (a day index)
Now == TsCell(2)

(***************************************************************************)
(* The inputs: the columns and the files of the model.                     *)
(***************************************************************************)
UserId == <<"u", "s", "e", "r", "_", "i", "d">>
Number == <<"n", "u", "m", "b", "e", "r">>
City == <<"c", "i", "t", "y">>
Pk == <<"p", "k">>

\* The column names the ten patterns are tried on.
PatternNames ==
    {<<"i", "d">>, UserId, <<"i", "d", "_", "n", "o">>,
     <<"a", "n", "i", "d", "e", "n", "t", "i", "f", "i", "e", "r", "s">>,
     <<"a", "p", "i", "k", "e", "y">>, <<"z", "i", "p", "c", "o", "d", "e">>,
     <<"u", "u", "i", "d">>, <<"x", "u", "u", "i", "d", "s">>, Pk, <<"r", "o", "w", "p", "k">>,
     <<"I", "D">>, <<"U", "s", "e", "r", "_", "I", "D">>,
     Number, City, <<"v", "a", "l", "i", "d">>, <<"i", "d", "e", "a">>,
     <<"k", "e", "y", "s">>, <<"p", "k", "g">>}

\* The cells a column of each native type can hold.
ValuesOf(dtype) ==
    CASE dtype = "object" ->
            {StrCell("1"), StrCell("yes"), StrCell("7"), StrCell("2.5"), StrCell("abc"),
             StrCell("2020-01-01"), NaN}
      [] dtype = "int64" -> {IntCell(0 - 1), IntCell(1), IntCell(7)}
      [] dtype = "float64" -> {FloatCell(2), FloatCell(5), NaN}
      [] dtype = "bool" -> {BoolCell(TRUE), BoolCell(FALSE)}
      [] dtype = "datetime64" -> {TsCell(1), TsCell(2), NaT}

Dtypes == {"object", "int64", "float64", "bool", "datetime64"}

\* Every column of up to MaxRows rows of one native type, under either name.
SmallColumns ==
    UNION {
        {[name |-> nm, dtype |-> dt, cells |-> cs] :
            nm \in {UserId, Number},
            cs \in UNION {[1..r -> ValuesOf(dt)] : r \in 0..MaxRows}} :
        dt \in Dtypes}

\* A column of six distinct values, one more than get_sample_values returns.
SixValues == [name |-> Number, dtype |-> "int64", cells |-> [i \in 1..6 |-> IntCell(i)]]

\* The columns that need more rows or other cells than SmallColumns has.
ScenarioColumns ==
    \* every name of PatternNames on two distinct integers
    {[name |-> nm, dtype |-> "int64", cells |-> <<IntCell(1), IntCell(7)>>] : nm \in PatternNames}
    \cup
    \* rows named id: eleven distinct values of eleven, nine and eight of ten,
    \* four of five
    {[name |-> <<"i", "d">>, dtype |-> "int64", cells |-> [i \in 1..11 |-> IntCell(i)]],
     [name |-> <<"i", "d">>, dtype |-> "float64",
      cells |-> [i \in 1..10 |-> IF i <= 9 THEN FloatCell(2 * i) ELSE NaN]],
     [name |-> <<"i", "d">>, dtype |-> "float64",
      cells |-> [i \in 1..10 |-> IF i <= 8 THEN FloatCell(2 * i) ELSE NaN]],
     [name |-> <<"i", "d">>, dtype |-> "int64",
      cells |-> [i \in 1..10 |-> IF i <= 8 THEN IntCell(i) ELSE IntCell(8)]],
     [name |-> <<"i", "d">>, dtype |-> "int64",
      cells |-> [i \in 1..5 |-> IF i <= 4 THEN IntCell(i) ELSE IntCell(4)]],
     \* a UUID column, upper-case boolean texts, Python bools beside a missing cell
     [name |-> <<"u", "u", "i", "d">>, dtype |-> "object",
      cells |-> <<StrCell(UuidText), StrCell("abc")>>],
     [name |-> Number, dtype |-> "object", cells |-> <<StrCell("TRUE"), StrCell("yes")>>],
     [name |-> Number, dtype |-> "object", cells |-> <<StrCell("0"), StrCell("1"), StrCell("1")>>],
     [name |-> Number, dtype |-> "object", cells |-> <<BoolCell(TRUE), NaN, BoolCell(FALSE)>>],
     \* five dates and a text that is no date
     [name |-> Number, dtype |-> "object",
      cells |-> [i \in 1..6 |-> IF i <= 3 THEN StrCell("2020-01-01")
                                 ELSE IF i <= 5 THEN StrCell("2021-06-30") ELSE StrCell("abc")]],
     \* a native integer column of 0 and 1
     [name |-> Number, dtype |-> "int64", cells |-> <<IntCell(0), IntCell(1), IntCell(1)>>],
     \* texts that are no number, no boolean and no date: three and four distinct
     \* values of ten, one of ten, and A,B,A,C,B,A,D,C
     [name |-> City, dtype |-> "object",
      cells |-> [i \in 1..10 |-> StrCell(<<"A", "B", "C">>[((i - 1) % 3) + 1])]],
     [name |-> City, dtype |-> "object",
      cells |-> [i \in 1..10 |-> StrCell(<<"A", "B", "C", "D">>[((i - 1) % 4) + 1])]],
     [name |-> City, dtype |-> "object", cells |-> [i \in 1..10 |-> StrCell("abc")]],
     [name |-> City, dtype |-> "object",
      cells |-> <<StrCell("A"), StrCell("B"), StrCell("A"), StrCell("C"),
                  StrCell("B"), StrCell("A"), StrCell("D"), StrCell("C")>>],
     \* the integers 1..10 and 1..6
     [name |-> Number, dtype |-> "int64", cells |-> [i \in 1..10 |-> IntCell(i)]],
     SixValues,
     \* a text beside None, and the text "nan"
     [name |-> City, dtype |-> "object", cells |-> <<StrCell("abc"), NoneCell>>],
     [name |-> City, dtype |-> "object", cells |-> <<StrCell("nan"), StrCell("abc")>>],
     \* four dates in five texts
     [name |-> City, dtype |-> "object",
      cells |-> [i \in 1..5 |-> IF i <= 4 THEN StrCell("2020-01-01") ELSE StrCell("abc")]],
     \* fifty missing cells
     [name |-> Number, dtype |-> "float64", cells |-> [i \in 1..50 |-> NaN]],
     [name |-> <<"i", "d">>, dtype |-> "object", cells |-> [i \in 1..50 |-> NaN]]}

\* Text columns of more than 100 values: a missing cell, 81 dates and 49 other
\* texts; 80 dates, 20 other texts and 30 more dates.
LongColumns ==
    {[name |-> City, dtype |-> "object",
      cells |-> [i \in 1..131 |-> IF i = 1 THEN NaN
                                   ELSE IF i <= 82 THEN StrCell("2020-01-01") ELSE StrCell("abc")]],
     [name |-> City, dtype |-> "object",
      cells |-> [i \in 1..130 |-> IF i <= 80 \/ i > 100 THEN StrCell("2021-06-30")
                                   ELSE StrCell("abc")]]}

Columns == SmallColumns \cup ScenarioColumns \cup LongColumns

\* The labels of a frame's columns by position.
ColumnLabels == <<UserId, Number, City, Pk>>

\* The columns of the frames that have several columns.
NarrowCells(r) ==
    {[dtype |-> "int64", cells |-> [i \in 1..r |-> IntCell(7)]],
     [dtype |-> "object", cells |-> [i \in 1..r |-> IF i = 1 THEN StrCell("abc") ELSE NaN]],
     [dtype |-> "float64", cells |-> [i \in 1..r |-> NaN]]}

\* The frames a loader can return: the rows and the labelled columns.
DataFrames ==
    {[nrows |-> Len(c.cells), columns |-> <<c>>] : c \in SmallColumns}
    \cup
    {[nrows |-> 0, columns |-> <<>>]}
    \cup
    UNION {
        {[nrows |-> r,
          columns |-> [i \in 1..k |-> [name |-> ColumnLabels[i], dtype |-> f[i].dtype,
                                        cells |-> f[i].cells]]] :
            f \in [1..k -> NarrowCells(r)]} :
        r \in 0..MaxRows, k \in 2..MaxCols}

\* The frames of one ScenarioColumns column that has at most MaxSamples
\* distinct values.
ScenarioFrames ==
    {[nrows |-> Len(c.cells), columns |-> <<c>>] :
        c \in {x \in ScenarioColumns : Len(Unique(DropNa(x.cells))) <= MaxSamples}}

Paths == {"data.csv", "gone.csv", "other.xyz"}

\* The label pandas gives a column whose header is the number 0 (read_excel,
\* read_json): an integer, no text.
IntLabel == <<"0 (int)">>

\* What stands on disk for a file no reader parses.
Corrupt == [nrows |-> 0 - 1, columns |-> <<>>]

\* A frame whose second column is labelled by an integer.
IntLabelFrame ==
    [nrows |-> 1,
     columns |-> <<[name |-> UserId, dtype |-> "int64", cells |-> <<IntCell(7)>>],
                   [name |-> IntLabel, dtype |-> "int64", cells |-> <<IntCell(1)>>]>>]

\* The files analyze_file fails on after it has found them.
FailingFrames == {Corrupt, IntLabelFrame}

(***************************************************************************)
(* JSON.  save_analysis_to_json writes json.dump(model_dump(), default=str); *)
(* load_analysis_from_json reads it with json.load and model_validate.     *)
(* A JSON token is [j, s, f]: its kind, its text, its number.              *)
(***************************************************************************)
JNull == [j |-> "null", s |-> "", f |-> Flt(0, 1)]
JString(s) == [j |-> "string", s |-> s, f |-> Flt(0, 1)]
JInt(n, d) == [j |-> "int", s |-> "", f |-> Flt(n, d)]
JBool(b) == [j |-> IF b THEN "true" ELSE "false", s |-> "", f |-> Flt(0, 1)]

\* A float is written by repr, which reads back to the same float; NaN is
\* written as the token NaN (allow_nan).
DumpFloat(x) ==
    IF x.nan THEN [j |-> "NaN", s |-> "", f |-> NaNFlt]
    ELSE [j |-> "real", s |-> "", f |-> x]

\* A datetime is not JSON serializable: default=str writes str(value).
DumpDatetime(ts) == JString(StrOf(ts))

\* A value of sample_values (List[Any]): the Python object of the cell.
DumpCell(c) ==
    CASE c.t = "str"   -> JString(c.s)
      [] c.t = "int"   -> JInt(c.n, 2)
      [] c.t = "float" -> DumpFloat(Flt(c.n, 2))
      [] c.t = "bool"  -> JBool(c.n = 2)
      [] c.t = "ts"    -> JString(StrOf(c))

DumpOptFloat(o) == IF o = None THEN JNull ELSE DumpFloat(o[1])
DumpOptInt(o) == IF o = None THEN JNull ELSE JInt(o[1], 1)
DumpOptDatetime(o) == IF o = None THEN JNull ELSE DumpDatetime(o[1])

DumpCategoricalStats(st) ==
    [unique_count |-> JInt(st.unique_count, 1),
     top_values |-> [i \in 1..Len(st.top_values) |->
                        [value |-> JString(st.top_values[i].value),
                         count |-> JInt(st.top_values[i].count, 1),
                         percentage |-> DumpFloat(st.top_values[i].percentage)]],
     missing_count |-> JInt(st.missing_count, 1),
     missing_percentage |-> DumpFloat(st.missing_percentage)]

DumpNumericalStats(st) ==
    [min_value |-> DumpOptFloat(st.min_value),
     max_value |-> DumpOptFloat(st.max_value),
     mean |-> DumpOptFloat(st.mean),
     median |-> DumpOptFloat(st.median),
     std_dev |-> DumpOptFloat(st.std_dev),
     quartiles |-> IF st.quartiles = None THEN JNull
                   ELSE [q25 |-> DumpFloat(st.quartiles[1].q25),
                         q50 |-> DumpFloat(st.quartiles[1].q50),
                         q75 |-> DumpFloat(st.quartiles[1].q75)],
     missing_count |-> JInt(st.missing_count, 1),
     missing_percentage |-> DumpFloat(st.missing_percentage)]

DumpStringStats(st) ==
    [min_length |-> DumpOptInt(st.min_length),
     max_length |-> DumpOptInt(st.max_length),
     avg_length |-> DumpOptFloat(st.avg_length),
     unique_count |-> JInt(st.unique_count, 1),
     missing_count |-> JInt(st.missing_count, 1),
     missing_percentage |-> DumpFloat(st.missing_percentage)]

DumpDatetimeStats(st) ==
    [min_date |-> DumpOptDatetime(st.min_date),
     max_date |-> DumpOptDatetime(st.max_date),
     unique_count |-> JInt(st.unique_count, 1),
     missing_count |-> JInt(st.missing_count, 1),
     missing_percentage |-> DumpFloat(st.missing_percentage)]

DumpFieldAnalysis(fa) ==
    [name |-> fa.name,
     field_type |-> JString(fa.field_type),
     total_count |-> JInt(fa.total_count, 1),
     categorical_stats |-> IF fa.categorical_stats = None THEN JNull
                           ELSE DumpCategoricalStats(fa.categorical_stats[1]),
     numerical_stats |-> IF fa.numerical_stats = None THEN JNull
                         ELSE DumpNumericalStats(fa.numerical_stats[1]),
     string_stats |-> IF fa.string_stats = None THEN JNull
                      ELSE DumpStringStats(fa.string_stats[1]),
     datetime_stats |-> IF fa.datetime_stats = None THEN JNull
                        ELSE DumpDatetimeStats(fa.datetime_stats[1]),
     sample_values |-> [i \in 1..Len(fa.sample_values) |-> DumpCell(fa.sample_values[i])]]

\* json.dump(analysis_result.model_dump(), f, indent=2, default=str)
DumpAnalysisResult(r) ==
    [file_path |-> JString(r.file_path),
     file_type |-> JString(r.file_type),
     total_rows |-> JInt(r.total_rows, 1),
     total_columns |-> JInt(r.total_columns, 1),
     fields |-> [i \in 1..Len(r.fields) |-> DumpFieldAnalysis(r.fields[i])],
     analysis_timestamp |-> DumpDatetime(r.analysis_timestamp),
     processing_time_seconds |-> DumpFloat(r.processing_time_seconds)]

\* A float field read from a token; an integer token is accepted as a float.
LoadFloat(tok) == IF tok.j = "NaN" THEN NaNFlt ELSE tok.f

\* A datetime field read from a string token: pydantic parses
\* "YYYY-MM-DD HH:MM:SS", the text str(datetime) writes.
LoadDatetime(tok) ==
    TsCell(CHOOSE d \in 1..Len(DateTexts) : DateTexts[d] \o " 00:00:00" = tok.s)

\* A value typed Any keeps the Python object json.load made of the token.
LoadCell(tok) ==
    CASE tok.j = "string" -> StrCell(tok.s)
      [] tok.j = "int"    -> [t |-> "int", s |-> "", n |-> tok.f.n]
      [] tok.j = "real"   -> FloatCell(tok.f.n)
      [] tok.j = "true"   -> BoolCell(TRUE)
      [] tok.j = "false"  -> BoolCell(FALSE)

LoadOptFloat(tok) == IF tok = JNull THEN None ELSE Some(LoadFloat(tok))
LoadOptInt(tok) == IF tok = JNull THEN None ELSE Some(tok.f.n)
LoadOptDatetime(tok) == IF tok = JNull THEN None ELSE Some(LoadDatetime(tok))

LoadCategoricalStats(d) ==
    [kind |-> "categorical",
     unique_count |-> d.unique_count.f.n,
     top_values |-> [i \in 1..Len(d.top_values) |->
                        [value |-> d.top_values[i].value.s,
                         count |-> d.top_values[i].count.f.n,
                         percentage |-> LoadFloat(d.top_values[i].percentage)]],
     missing_count |-> d.missing_count.f.n,
     missing_percentage |-> LoadFloat(d.missing_percentage)]

LoadNumericalStats(d) ==
    [kind |-> "numerical",
     min_value |-> LoadOptFloat(d.min_value),
     max_value |-> LoadOptFloat(d.max_value),
     mean |-> LoadOptFloat(d.mean),
     median |-> LoadOptFloat(d.median),
     std_dev |-> LoadOptFloat(d.std_dev),
     quartiles |-> IF d.quartiles = JNull THEN None
                   ELSE Some([q25 |-> LoadFloat(d.quartiles.q25),
                              q50 |-> LoadFloat(d.quartiles.q50),
                              q75 |-> LoadFloat(d.quartiles.q75)]),
     missing_count |-> d.missing_count.f.n,
     missing_percentage |-> LoadFloat(d.missing_percentage)]

LoadStringStats(d) ==
    [kind |-> "string",
     min_length |-> LoadOptInt(d.min_length),
     max_length |-> LoadOptInt(d.max_length),
     avg_length |-> LoadOptFloat(d.avg_length),
     unique_count |-> d.unique_count.f.n,
     missing_count |-> d.missing_count.f.n,
     missing_percentage |-> LoadFloat(d.missing_percentage)]

LoadDatetimeStats(d) ==
    [kind |-> "datetime",
     min_date |-> LoadOptDatetime(d.min_date),
     max_date |-> LoadOptDatetime(d.max_date),
     unique_count |-> d.unique_count.f.n,
     missing_count |-> d.missing_count.f.n,
     missing_percentage |-> LoadFloat(d.missing_percentage)]

LoadFieldAnalysis(d) ==
    [name |-> d.name,
     field_type |-> d.field_type.s,
     total_count |-> d.total_count.f.n,
     categorical_stats |-> IF d.categorical_stats = JNull THEN None
                           ELSE Some(LoadCategoricalStats(d.categorical_stats)),
     numerical_stats |-> IF d.numerical_stats = JNull THEN None
                         ELSE Some(LoadNumericalStats(d.numerical_stats)),
     string_stats |-> IF d.string_stats = JNull THEN None
                      ELSE Some(LoadStringStats(d.string_stats)),
     datetime_stats |-> IF d.datetime_stats = JNull THEN None
                        ELSE Some(LoadDatetimeStats(d.datetime_stats)),
     sample_values |-> [i \in 1..Len(d.sample_values) |-> LoadCell(d.sample_values[i])]]

\* AnalysisResult.model_validate(json.load(f))
LoadAnalysisResult(d) ==
    [file_path |-> d.file_path.s,
     file_type |-> d.file_type.s,
     total_rows |-> d.total_rows.f.n,
     total_columns |-> d.total_columns.f.n,
     fields |-> [i \in 1..Len(d.fields) |-> LoadFieldAnalysis(d.fields[i])],
     analysis_timestamp |-> LoadDatetime(d.analysis_timestamp),
     processing_time_seconds |-> LoadFloat(d.processing_time_seconds)]

(***************************************************************************)
(* Python's ==.  Two floats are equal when neither is NaN and they are the *)
(* same number; a NaN read from a file is a new object, so the identity    *)
(* shortcut of container comparison does not apply to it.                  *)
(***************************************************************************)
EqFloat(a, b) == ~a.nan /\ ~b.nan /\ a = b

EqOptFloat(a, b) ==
    IF a = None \/ b = None THEN a = b ELSE EqFloat(a[1], b[1])

EqCategoricalStats(a, b) ==
    /\ a.unique_count = b.unique_count
    /\ Len(a.top_values) = Len(b.top_values)
    /\ \A i \in 1..Len(a.top_values) :
          /\ a.top_values[i].value = b.top_values[i].value
          /\ a.top_values[i].count = b.top_values[i].count
          /\ EqFloat(a.top_values[i].percentage, b.top_values[i].percentage)
    /\ a.missing_count = b.missing_count
    /\ EqFloat(a.missing_percentage, b.missing_percentage)

EqNumericalStats(a, b) ==
    /\ EqOptFloat(a.min_value, b.min_value)
    /\ EqOptFloat(a.max_value, b.max_value)
    /\ EqOptFloat(a.mean, b.mean)
    /\ EqOptFloat(a.median, b.median)
    /\ EqOptFloat(a.std_dev, b.std_dev)
    /\ IF a.quartiles = None \/ b.quartiles = None THEN a.quartiles = b.quartiles
       ELSE /\ EqFloat(a.quartiles[1].q25, b.quartiles[1].q25)
            /\ EqFloat(a.quartiles[1].q50, b.quartiles[1].q50)
            /\ EqFloat(a.quartiles[1].q75, b.quartiles[1].q75)
    /\ a.missing_count = b.missing_count
    /\ EqFloat(a.missing_percentage, b.missing_percentage)

EqStringStats(a, b) ==
    /\ a.min_length = b.min_length
    /\ a.max_length = b.max_length
    /\ EqOptFloat(a.avg_length, b.avg_length)
    /\ a.unique_count = b.unique_count
    /\ a.missing_count = b.missing_count
    /\ EqFloat(a.missing_percentage, b.missing_percentage)

EqDatetimeStats(a, b) ==
    /\ a.min_date = b.min_date
    /\ a.max_date = b.max_date
    /\ a.unique_count = b.unique_count
    /\ a.missing_count = b.missing_count
    /\ EqFloat(a.missing_percentage, b.missing_percentage)

EqOpt(a, b, Eq(_, _)) == IF a = None \/ b = None THEN a = b ELSE Eq(a[1], b[1])

EqFieldAnalysis(a, b) ==
    /\ a.name = b.name
    /\ a.field_type = b.field_type
    /\ a.total_count = b.total_count
    /\ EqOpt(a.categorical_stats, b.categorical_stats, EqCategoricalStats)
    /\ EqOpt(a.numerical_stats, b.numerical_stats, EqNumericalStats)
    /\ EqOpt(a.string_stats, b.string_stats, EqStringStats)
    /\ EqOpt(a.datetime_stats, b.datetime_stats, EqDatetimeStats)
    /\ a.sample_values = b.sample_values

\* AnalysisResult.__eq__
EqAnalysisResult(a, b) ==
    /\ a.file_path = b.file_path
    /\ a.file_type = b.file_type
    /\ a.total_rows = b.total_rows
    /\ a.total_columns = b.total_columns
    /\ Len(a.fields) = Len(b.fields)
    /\ \A i \in 1..Len(a.fields) : EqFieldAnalysis(a.fields[i], b.fields[i])
    /\ a.analysis_timestamp = b.analysis_timestamp
    /\ EqFloat(a.processing_time_seconds, b.processing_time_seconds)

(***************************************************************************)
(* The summary of a result: HTMLReporter._calculate_summary_stats,         *)
(* reporter.py, and _display_summary, cli.py.                              *)
(***************************************************************************)
FieldMissingCategoricalOnly(fa) ==
    IF fa.categorical_stats # None THEN fa.categorical_stats[1].missing_count ELSE 0

\* What one field adds to total_missing.  Python reads the summed expression
\* as one chain of conditionals,
\*   a.missing_count if a else ((0 or b.missing_count) if b else (... else 0)),
\* and "0 or x" is x.
FieldMissing(fa) ==
    IF fa.categorical_stats # None THEN fa.categorical_stats[1].missing_count
    ELSE IF fa.numerical_stats # None THEN fa.numerical_stats[1].missing_count
    ELSE IF fa.string_stats # None THEN fa.string_stats[1].missing_count
    ELSE IF fa.datetime_stats # None THEN fa.datetime_stats[1].missing_count
    ELSE 0

TotalMissing(fields) == Sum([i \in 1..Len(fields) |-> FieldMissing(fields[i])])

\* type_counts: how many fields each detected type has
TypeCounts(fields) ==
    [t \in {fields[i].field_type : i \in 1..Len(fields)} |->
        Cardinality({i \in 1..Len(fields) : fields[i].field_type = t})]

\* HTMLReporter._calculate_summary_stats: the dictionary, or the error of the
\* division by total_rows * total_fields.
CalculateSummaryStats(analysis_result) ==
    LET total_fields == Len(analysis_result.fields)
        total_missing == TotalMissing(analysis_result.fields)
        cells == analysis_result.total_rows * total_fields
    IN  IF total_fields > 0 /\ cells = 0
        THEN [raised |-> "ZeroDivisionError", val |-> None]
        ELSE [raised |-> "",
              val |-> Some([total_fields |-> total_fields,
                            total_missing |-> total_missing,
                            type_counts |-> TypeCounts(analysis_result.fields),
                            completeness_percentage |->
                                IF total_fields > 0
                                THEN Flt(RoundHalfEven((cells - total_missing) * 10000, cells), 100)
                                ELSE Flt(0, 100)])]

\* _display_summary: the two figures of its "Data Quality" lines, completeness
\* as printed with one decimal.
DisplaySummary(analysis_result) ==
    LET total_missing == TotalMissing(analysis_result.fields)
        total_cells == analysis_result.total_rows * analysis_result.total_columns
    IN  [raised |-> "",
         val |-> Some([total_missing |-> total_missing,
                       completeness |->
                           IF total_cells > 0
                           THEN Flt(RoundHalfEven((total_cells - total_missing) * 1000, total_cells), 10)
                           ELSE Flt(0, 10)])]

(***************************************************************************)
(* The state machine.                                                      *)
(***************************************************************************)
Ret(op, raised, val) == [op |-> op, arg |-> None, raised |-> raised, val |-> val]

\* What a call with the argument arg did.
RetOf(op, arg, raised, val) == [op |-> op, arg |-> Some(arg), raised |-> raised, val |-> val]

\* The sizes and modes get_sample is called with.
SampleSizes == 1..MaxRows
SampleTypes == {"head", "random"}

SampleRowsGlobalGenerator(df, n, sample_type, gen) ==
    LET k == IF n < df.nrows THEN n ELSE df.nrows
    IN  IF sample_type = "random"
        THEN [rows |-> SubSeq(Permutation(gen, df.nrows), 1, k), gen |-> Advance(gen)]
        ELSE [rows |-> [i \in 1..k |-> i], gen |-> gen]

\* The rows get_sample returns, by their position in self._data, and the
\* global generator afterwards: DataFrame.sample(random_state=42) draws from a
\* generator of its own, seeded anew at every call.
SampleRows(df, n, sample_type, gen) ==
    LET k == IF n < df.nrows THEN n ELSE df.nrows
    IN  IF sample_type = "random"
        THEN [rows |-> SubSeq(Permutation(RandomState(42), df.nrows), 1, k), gen |-> gen]
        ELSE [rows |-> [i \in 1..k |-> i], gen |-> gen]

\* DataAnalyzer._load_data(path) on the files of the disk: the error it raises,
\* or the frame it returns.  A path that does not exist is refused first; a
\* file no reader parses raises the reader's error under the suffix .csv and
\* ValueError ("Unsupported file format") under a suffix _load_data does not
\* know, which it tries to read as CSV.
LoadDataMissingAsEmpty(files, path) ==
    IF files[path] = None THEN [raised |-> "", df |-> Some([nrows |-> 0, columns |-> <<>>])]
    ELSE IF files[path][1] = Corrupt
    THEN [raised |-> IF GetFileType(path) = "csv" THEN "ParserError" ELSE "ValueError",
          df |-> None]
    ELSE [raised |-> "", df |-> files[path]]

LoadData(files, path) ==
    IF files[path] = None THEN [raised |-> "FileNotFoundError", df |-> None]
    ELSE IF files[path][1] = Corrupt
    THEN [raised |-> IF GetFileType(path) = "csv" THEN "ParserError" ELSE "ValueError",
          df |-> None]
    ELSE [raised |-> "", df |-> files[path]]

\* The error _analyze_field(series, column) raises, or "".  Under a label that
\* is no text, series.name.lower() of _is_id_field raises AttributeError; a
\* column without a value never reaches it (detect_field_type returns first),
\* and FieldAnalysis(name=column) then refuses the label.
AnalyzeFieldRaises(series) ==
    IF series.name # IntLabel THEN ""
    ELSE IF Len(DropNa(series.cells)) = 0 THEN "ValidationError"
    ELSE "AttributeError"

\* The position of the first column of the frame whose analysis raises, or 0.
FailingColumn(df) ==
    LET failing == {i \in 1..Len(df.columns) : AnalyzeFieldRaises(df.columns[i]) # ""}
    IN  IF failing = {} THEN 0 ELSE CHOOSE i \in failing : \A j \in failing : i <= j

\* The AnalysisResult analyze_file builds from the loaded frame and the fields.
MakeResult(path, df, field_analyses) ==
    [file_path |-> path,
     file_type |-> GetFileType(path),
     total_rows |-> df.nrows,
     total_columns |-> Len(df.columns),
     fields |-> field_analyses,
     analysis_timestamp |-> Now,
     processing_time_seconds |-> Flt(0, 100)]

\* A new DataAnalyzer.  The environment holds either one file on disk or one
\* Series in the caller's hand.  No column of a file on disk has more than
\* MaxSamples distinct values, so the generator's state plays no part there.
Init ==
    /\ data = None
    /\ result = None
    /\ json_file = None
    /\ ret = Ret("__init__", "", None)
    /\ hist = [loaded |-> None]
    /\ analyzers = <<>>
    /\ threads = <<>>
    /\ \/ /\ disk \in {[p \in Paths |-> IF p = "data.csv" THEN Some(df) ELSE None] :
                          df \in DataFrames \cup ScenarioFrames \cup FailingFrames}
          /\ arg_series = None
          /\ np_random = 0
       \/ /\ disk = [p \in Paths |-> None]
          /\ arg_series \in {Some(c) : c \in Columns}
          /\ np_random \in 0..(RngSeeds - 1)

AnalyzeFileAssignsDataLast(path) ==
    \/ /\ LoadData(disk, path).raised # ""
       /\ ret' = RetOf("analyze_file", path, LoadData(disk, path).raised, None)
       /\ UNCHANGED <<disk, data, result, json_file, arg_series, np_random, hist, analyzers, threads>>
    \/ /\ LoadData(disk, path).raised = ""
       /\ LET df == LoadData(disk, path).df[1]
              k == FailingColumn(df)
          IN  /\ k > 0
              /\ ret' = RetOf("analyze_file", path, AnalyzeFieldRaises(df.columns[k]), None)
              /\ np_random' = GeneratorAfterSampling(SubSeq(df.columns, 1, k - 1), np_random)
       /\ hist' = [loaded |-> Some(path)]
       /\ UNCHANGED <<disk, data, result, json_file, arg_series, analyzers, threads>>
    \/ /\ LoadData(disk, path).raised = ""
       /\ LET df == LoadData(disk, path).df[1]
          IN  /\ FailingColumn(df) = 0
              /\ data' = Some(df)
              /\ \E fs \in FieldAnalysesOutcomes(df, np_random) :
                    result' = Some(MakeResult(path, df, fs))
              /\ ret' = RetOf("analyze_file", path, "", result')
              /\ np_random' = GeneratorAfterSampling(df.columns, np_random)
       /\ hist' = [loaded |-> Some(path)]
       /\ UNCHANGED <<disk, json_file, arg_series, analyzers, threads>>

\* DataAnalyzer.analyze_file(path)
AnalyzeFile(path) ==
    \/ \* _load_data raises before self._data is assigned
       /\ LoadData(disk, path).raised # ""
       /\ ret' = RetOf("analyze_file", path, LoadData(disk, path).raised, None)
       /\ UNCHANGED <<disk, data, result, json_file, arg_series, np_random, hist, analyzers, threads>>
    \/ \* _analyze_field raises in the loop, after self._data was assigned
       /\ LoadData(disk, path).raised = ""
       /\ LET df == LoadData(disk, path).df[1]
              k == FailingColumn(df)
          IN  /\ k > 0
              /\ data' = Some(df)
              /\ ret' = RetOf("analyze_file", path, AnalyzeFieldRaises(df.columns[k]), None)
              /\ np_random' = GeneratorAfterSampling(SubSeq(df.columns, 1, k - 1), np_random)
       /\ hist' = [loaded |-> Some(path)]
       /\ UNCHANGED <<disk, result, json_file, arg_series, analyzers, threads>>
    \/ /\ LoadData(disk, path).raised = ""
       /\ LET df == LoadData(disk, path).df[1]
          IN  /\ FailingColumn(df) = 0
              /\ data' = Some(df)
              /\ \E fs \in FieldAnalysesOutcomes(df, np_random) :
                    result' = Some(MakeResult(path, df, fs))
              /\ ret' = RetOf("analyze_file", path, "", result')
              /\ np_random' = GeneratorAfterSampling(df.columns, np_random)
       /\ hist' = [loaded |-> Some(path)]
       /\ UNCHANGED <<disk, json_file, arg_series, analyzers, threads>>

\* DataAnalyzer.save_analysis_to_json(result, output_path)
SaveAnalysisToJson ==
    /\ result # None
    /\ json_file' = Some(DumpAnalysisResult(result[1]))
    /\ ret' = Ret("save_analysis_to_json", "", None)
    /\ UNCHANGED <<disk, data, result, arg_series, np_random, hist, analyzers, threads>>

\* DataAnalyzer.load_analysis_from_json(json_path)
LoadAnalysisFromJson ==
    /\ json_file # None
    /\ ret' = Ret("load_analysis_from_json", "", Some(LoadAnalysisResult(json_file[1])))
    /\ UNCHANGED <<disk, data, result, json_file, arg_series, np_random, hist, analyzers, threads>>

\* FieldTypeDetector.detect_field_type(series), called directly
DetectFieldTypeCall ==
    /\ arg_series # None
    /\ ret' = Ret("detect_field_type", "", Some(DetectFieldType(arg_series[1])))
    /\ UNCHANGED <<disk, data, result, json_file, arg_series, np_random, hist, analyzers, threads>>

\* StatisticsCalculator.calculate_field_statistics(series, field_type), called
\* directly with the type the detector gives the series
CalculateFieldStatisticsCall ==
    /\ arg_series # None
    /\ ret' = Ret("calculate_field_statistics", "",
                  CalculateFieldStatistics(arg_series[1], DetectFieldType(arg_series[1])))
    /\ UNCHANGED <<disk, data, result, json_file, arg_series, np_random, hist, analyzers, threads>>

\* StatisticsCalculator.calculate_categorical_stats(series), called directly
CalculateCategoricalStatsCall ==
    /\ arg_series # None
    /\ ret' = Ret("calculate_categorical_stats", "", Some(CalculateCategoricalStats(arg_series[1])))
    /\ UNCHANGED <<disk, data, result, json_file, arg_series, np_random, hist, analyzers, threads>>

\* StatisticsCalculator.calculate_numerical_stats(series), called directly.
\* The model covers the native types whose coercion NumOf gives.
CalculateNumericalStatsCall ==
    /\ arg_series # None
    /\ arg_series[1].dtype \in {"object", "int64", "float64"}
    /\ ret' = Ret("calculate_numerical_stats", "", Some(CalculateNumericalStats(arg_series[1])))
    /\ UNCHANGED <<disk, data, result, json_file, arg_series, np_random, hist, analyzers, threads>>

\* StatisticsCalculator.calculate_string_stats(series), called directly.
\* The model covers the native types whose astype(str) StrOf gives.
CalculateStringStatsCall ==
    /\ arg_series # None
    /\ arg_series[1].dtype \in {"object", "int64", "float64", "bool"}
    /\ ret' = Ret("calculate_string_stats", "", Some(CalculateStringStats(arg_series[1])))
    /\ UNCHANGED <<disk, data, result, json_file, arg_series, np_random, hist, analyzers, threads>>

\* StatisticsCalculator.calculate_datetime_stats(series), called directly.
\* The model covers text and native datetime columns.
CalculateDatetimeStatsCall ==
    /\ arg_series # None
    /\ arg_series[1].dtype \in {"object", "datetime64"}
    /\ \A i \in 1..Len(arg_series[1].cells) : arg_series[1].cells[i].t \in {"str", "ts", "na"}
    /\ ret' = Ret("calculate_datetime_stats", "", Some(CalculateDatetimeStats(arg_series[1])))
    /\ UNCHANGED <<disk, data, result, json_file, arg_series, np_random, hist, analyzers, threads>>

\* DataAnalyzer._analyze_field(series, column_name), called directly
AnalyzeFieldCall ==
    /\ arg_series # None
    /\ \E sv \in SampleValueOutcomes(arg_series[1], np_random) :
          ret' = Ret("_analyze_field", "", Some(AnalyzeField(arg_series[1], arg_series[1].name, sv)))
    /\ np_random' = GeneratorAfterSampling(<<arg_series[1]>>, np_random)
    /\ UNCHANGED <<disk, data, result, json_file, arg_series, hist, analyzers, threads>>

\* DataAnalyzer.get_sample(n, sample_type): None, or the rows of self._data it
\* returns, by their position (rows) and with their cells (values)
GetSample(n, sample_type) ==
    \/ /\ data = None
       /\ ret' = Ret("get_sample", "", None)
       /\ UNCHANGED <<disk, data, result, json_file, arg_series, np_random, hist, analyzers, threads>>
    \/ /\ data # None
       /\ LET drawn == SampleRows(data[1], n, sample_type, np_random)
          IN  /\ ret' = Ret("get_sample", "",
                            Some([n |-> n, sample_type |-> sample_type, rows |-> drawn.rows,
                                  columns |-> [j \in 1..Len(data[1].columns) |->
                                                  data[1].columns[j].name],
                                  values |-> [i \in 1..Len(drawn.rows) |->
                                                 [j \in 1..Len(data[1].columns) |->
                                                     data[1].columns[j].cells[drawn.rows[i]]]]]))
              /\ np_random' = drawn.gen
       /\ UNCHANGED <<disk, data, result, json_file, arg_series, hist, analyzers, threads>>

\* The field types generate_field_chart draws a chart for.
ChartedTypes == {"categorical", "integer", "float", "datetime", "boolean"}

\* The labels of the columns of a frame.
Labels(df) == {df.columns[j].name : j \in 1..Len(df.columns)}

\* The AnalysisResult of a dataset that is not on this disk, as
\* load_analysis_from_json gives it from the file of an earlier run.
ForeignResult ==
    LET df == [nrows |-> 1,
               columns |-> <<[name |-> Pk, dtype |-> "object", cells |-> <<StrCell("abc")>>]>>]
    IN  MakeResult("gone.csv", df,
                   <<AnalyzeField(df.columns[1], Pk, <<StrCell("abc")>>)>>)

\* The results analyze_file returns for the files of the disk.
ResultsOf(files) ==
    UNION {
        IF LoadData(files, path).raised = "" /\ FailingColumn(LoadData(files, path).df[1]) = 0
        THEN {MakeResult(path, files[path][1], fs) :
                 fs \in FieldAnalysesOutcomes(files[path][1], 0)}
        ELSE {} :
        path \in Paths}

\* The results a caller passes to generate_charts: the one it holds from
\* analyze_file and one of another dataset.
ChartArguments == {ForeignResult} \cup {result[i] : i \in 1..Len(result)}

\* DataAnalyzer.generate_charts(analysis_result): reads self._data, changes
\* nothing.  What it returns is kept as the column of self._data each field's
\* chart was drawn from (None where generate_field_chart draws none) and
\* whether generate_summary_charts added the chart of the missing cells.
GenerateCharts(analysis_result) ==
    \/ /\ data = None
       /\ ret' = RetOf("generate_charts", analysis_result, "ValueError", None)
       /\ UNCHANGED <<disk, data, result, json_file, arg_series, np_random, hist, analyzers, threads>>
    \/ \* self._data[field.name] of a label self._data does not have
       /\ data # None
       /\ \E i \in 1..Len(analysis_result.fields) :
             analysis_result.fields[i].name \notin Labels(data[1])
       /\ ret' = RetOf("generate_charts", analysis_result, "KeyError", None)
       /\ UNCHANGED <<disk, data, result, json_file, arg_series, np_random, hist, analyzers, threads>>
    \/ /\ data # None
       /\ \A i \in 1..Len(analysis_result.fields) :
             analysis_result.fields[i].name \in Labels(data[1])
       /\ ret' = RetOf("generate_charts", analysis_result, "",
                     Some([fields |->
                              [i \in 1..Len(analysis_result.fields) |->
                                  [name |-> analysis_result.fields[i].name,
                                   chart |->
                                      IF analysis_result.fields[i].field_type \in ChartedTypes
                                      THEN Some(ColumnNamed(data[1], analysis_result.fields[i].name))
                                      ELSE None]],
                           missing_data |->
                              \E j \in 1..Len(data[1].columns) :
                                 \E r \in 1..data[1].nrows : data[1].columns[j].cells[r].t = "na"]))
       /\ UNCHANGED <<disk, data, result, json_file, arg_series, np_random, hist, analyzers, threads>>

\* HTMLReporter._calculate_summary_stats(result) on the result analyze_file
\* returned
CalculateSummaryStatsCall ==
    /\ result # None
    /\ LET summary == CalculateSummaryStats(result[1])
       IN  ret' = Ret("_calculate_summary_stats", summary.raised, summary.val)
    /\ UNCHANGED <<disk, data, result, json_file, arg_series, np_random, hist, analyzers, threads>>

\* _display_summary(result) on the result analyze_file returned
DisplaySummaryCall ==
    /\ result # None
    /\ LET summary == DisplaySummary(result[1])
       IN  ret' = Ret("_display_summary", summary.raised, summary.val)
    /\ UNCHANGED <<disk, data, result, json_file, arg_series, np_random, hist, analyzers, threads>>

Next ==
    \/ \E path \in Paths : AnalyzeFile(path)
    \/ AnalyzeFieldCall
    \/ \E n \in SampleSizes, sample_type \in SampleTypes : GetSample(n, sample_type)
    \/ \E analysis_result \in ChartArguments : GenerateCharts(analysis_result)
    \/ SaveAnalysisToJson
    \/ LoadAnalysisFromJson
    \/ DetectFieldTypeCall
    \/ CalculateFieldStatisticsCall
    \/ CalculateCategoricalStatsCall
    \/ CalculateNumericalStatsCall
    \/ CalculateStringStatsCall
    \/ CalculateDatetimeStatsCall
    \/ CalculateSummaryStatsCall
    \/ DisplaySummaryCall

Spec == Init /\ [][Next]_vars

(***************************************************************************)
(* A session of one DataAnalyzer over several files.                       *)
(***************************************************************************)
\* The frames of the files of a session: two that analyze_file analyses, the
\* second with the labels of the first and one more, and those it fails on.
SessionFrames ==
    {[nrows |-> 2,
      columns |-> <<[name |-> UserId, dtype |-> "int64", cells |-> <<IntCell(1), IntCell(7)>>],
                    [name |-> Number, dtype |-> "float64", cells |-> <<FloatCell(5), NaN>>]>>],
     [nrows |-> 1,
      columns |-> <<[name |-> UserId, dtype |-> "int64", cells |-> <<IntCell(7)>>],
                    [name |-> Number, dtype |-> "int64", cells |-> <<IntCell(7)>>],
                    [name |-> City, dtype |-> "object", cells |-> <<StrCell("abc")>>]>>]}
    \cup FailingFrames

\* A new DataAnalyzer beside a disk of two files and a path without a file.
SessionInit ==
    /\ data = None
    /\ result = None
    /\ json_file = None
    /\ ret = Ret("__init__", "", None)
    /\ hist = [loaded |-> None]
    /\ analyzers = <<>>
    /\ threads = <<>>
    /\ arg_series = None
    /\ np_random = 0
    /\ disk \in {[p \in Paths |-> IF p = "data.csv" THEN Some(a)
                                  ELSE IF p = "other.xyz" THEN Some(b) ELSE None] :
                    a \in SessionFrames, b \in SessionFrames}

SessionNext ==
    \/ \E path \in Paths : AnalyzeFile(path)
    \/ \E n \in SampleSizes, sample_type \in SampleTypes : GetSample(n, sample_type)
    \/ \E analysis_result \in ResultsOf(disk) \cup {ForeignResult} : GenerateCharts(analysis_result)

SessionSpec == SessionInit /\ [][SessionNext]_vars

\* ---------------------------------------------------------------------------
\* Two analyze_file calls run on two threads of one process.  A thread is
\* switched between two reads or writes of self._data; what a call keeps in its
\* own frame (file_path, the column iterator, field_analyses) is its own.
\* analyzers[a] is the _data of DataAnalyzer a, threads[t] the frame of call t.
\* ---------------------------------------------------------------------------
Instances == 1..2
Calls == 1..2

\* The files of the two calls: readable, every label of them a text.
ThreadFrames == SessionFrames \ FailingFrames

\* The frame of a call that has not run its first statement.
Frame(self, path) ==
    [self |-> self, path |-> path, pc |-> "load", columns |-> <<>>, i |-> 0,
     field_analyses |-> <<>>, total_rows |-> 0, raised |-> "", val |-> None]

\* Two new DataAnalyzers; call 1 on the first, call 2 on either, each call on
\* its own path, the two files on disk differing.
ThreadsInit ==
    /\ data = None
    /\ result = None
    /\ json_file = None
    /\ ret = Ret("__init__", "", None)
    /\ hist = [loaded |-> None]
    /\ arg_series = None
    /\ np_random = 0
    /\ \E a \in ThreadFrames, b \in ThreadFrames :
          /\ a # b
          /\ disk = [p \in Paths |-> IF p = "data.csv" THEN Some(a)
                                     ELSE IF p = "other.xyz" THEN Some(b) ELSE None]
    /\ analyzers = [a \in Instances |-> None]
    /\ \E self \in Instances, path \in {"other.xyz", "gone.csv"} :
          threads = <<Frame(1, "data.csv"), Frame(self, path)>>

\* self._data = self._load_data(file_path)
Load(t) ==
    LET f == threads[t]
        loaded == LoadData(disk, f.path)
    IN  /\ f.pc = "load"
        /\ \/ /\ loaded.raised # ""
              /\ threads' = [threads EXCEPT ![t].pc = "done", ![t].raised = loaded.raised]
              /\ UNCHANGED analyzers
           \/ /\ loaded.raised = ""
              /\ analyzers' = [analyzers EXCEPT ![f.self] = loaded.df]
              /\ threads' = [threads EXCEPT ![t].pc = "loop"]
        /\ UNCHANGED <<disk, data, result, json_file, arg_series, ret, np_random, hist>>

\* for column in self._data.columns: the labels are read once, from the frame
\* self._data holds when the loop starts
StartLoop(t) ==
    LET f == threads[t]
        df == analyzers[f.self][1]
    IN  /\ f.pc = "loop"
        /\ threads' = [threads EXCEPT ![t].pc = "column",
                                      ![t].columns = [j \in 1..Len(df.columns) |-> df.columns[j].name],
                                      ![t].i = 1]
        /\ UNCHANGED <<disk, data, result, json_file, arg_series, ret, np_random, hist, analyzers>>

\* field_analyses.append(self._analyze_field(self._data[column], column)), or
\* the end of the loop
AnalyzeColumn(t) ==
    LET f == threads[t]
        df == analyzers[f.self][1]
    IN  /\ f.pc = "column"
        /\ \/ /\ f.i > Len(f.columns)
              /\ threads' = [threads EXCEPT ![t].pc = "rows"]
           \/ /\ f.i <= Len(f.columns)
              /\ f.columns[f.i] \notin Labels(df)
              /\ threads' = [threads EXCEPT ![t].pc = "done", ![t].raised = "KeyError"]
           \/ /\ f.i <= Len(f.columns)
              /\ f.columns[f.i] \in Labels(df)
              /\ \E sv \in SampleValueOutcomes(ColumnNamed(df, f.columns[f.i]), np_random) :
                    threads' = [threads EXCEPT
                        ![t].field_analyses =
                            Append(@, AnalyzeField(ColumnNamed(df, f.columns[f.i]), f.columns[f.i], sv)),
                        ![t].i = @ + 1]
        /\ UNCHANGED <<disk, data, result, json_file, arg_series, ret, np_random, hist, analyzers>>

\* total_rows=len(self._data)
ReadRows(t) ==
    LET f == threads[t]
    IN  /\ f.pc = "rows"
        /\ threads' = [threads EXCEPT ![t].pc = "build",
                                      ![t].total_rows = analyzers[f.self][1].nrows]
        /\ UNCHANGED <<disk, data, result, json_file, arg_series, ret, np_random, hist, analyzers>>

\* total_columns=len(self._data.columns), AnalysisResult(...) and the return
Build(t) ==
    LET f == threads[t]
        df == analyzers[f.self][1]
    IN  /\ f.pc = "build"
        /\ threads' = [threads EXCEPT
              ![t].pc = "done",
              ![t].val = Some([MakeResult(f.path, df, f.field_analyses)
                                  EXCEPT !.total_rows = f.total_rows])]
        /\ UNCHANGED <<disk, data, result, json_file, arg_series, ret, np_random, hist, analyzers>>

ThreadsNext ==
    \E t \in Calls :
        \/ Load(t)
        \/ StartLoop(t)
        \/ AnalyzeColumn(t)
        \/ ReadRows(t)
        \/ Build(t)

ThreadsSpec == ThreadsInit /\ [][ThreadsNext]_vars

(***************************************************************************)
(* What the properties below read from a state.                            *)
(***************************************************************************)
\* The column of the analysed file that field i of the held result describes.
ResultColumn(i) == disk[result[1].file_path][1].columns[i]

\* The direct calls that return one statistics record.
CalculatorOps ==
    {"calculate_field_statistics", "calculate_categorical_stats", "calculate_numerical_stats",
     "calculate_string_stats", "calculate_datetime_stats"}

\* P(series, st) for every statistics record of the state with its column: the
\* populated variants of the held result and of a FieldAnalysis returned by a
\* direct call, and the record a direct call of the calculator returned.
ForEveryStats(P(_, _)) ==
    /\ result # None =>
          \A i \in 1..Len(result[1].fields) :
             LET fa == result[1].fields[i]
             IN  /\ fa.categorical_stats # None => P(ResultColumn(i), fa.categorical_stats[1])
                 /\ fa.numerical_stats # None => P(ResultColumn(i), fa.numerical_stats[1])
                 /\ fa.string_stats # None => P(ResultColumn(i), fa.string_stats[1])
                 /\ fa.datetime_stats # None => P(ResultColumn(i), fa.datetime_stats[1])
    /\ (ret.op \in CalculatorOps /\ ret.val # None) => P(arg_series[1], ret.val[1])
    /\ ret.op = "_analyze_field" =>
          LET fa == ret.val[1]
          IN  /\ fa.categorical_stats # None => P(arg_series[1], fa.categorical_stats[1])
              /\ fa.numerical_stats # None => P(arg_series[1], fa.numerical_stats[1])
              /\ fa.string_stats # None => P(arg_series[1], fa.string_stats[1])
              /\ fa.datetime_stats # None => P(arg_series[1], fa.datetime_stats[1])

\* P(series, field_type) for every type the detector returned in the state.
ForEveryDetection(P(_, _)) ==
    /\ result # None =>
          \A i \in 1..Len(result[1].fields) : P(ResultColumn(i), result[1].fields[i].field_type)
    /\ ret.op = "detect_field_type" => P(arg_series[1], ret.val[1])
    /\ ret.op = "_analyze_field" => P(arg_series[1], ret.val[1].field_type)

HasValue(cells) == \E i \in 1..Len(cells) : cells[i].t # "na"

(***************************************************************************)
(* C1.  detect_field_type returns exactly one FieldType: unknown for a     *)
(* column without a non-missing value, otherwise the type of the first of  *)
(* the checks ID, BOOLEAN, DATETIME, INTEGER, FLOAT, CATEGORICAL (in that  *)
(* order) that accepts the column, and string when none accepts.           *)
(***************************************************************************)
FirstAccepted(series) ==
    IF ~HasValue(series.cells) THEN "unknown"
    ELSE IF \E k \in 1..Len(DetectorChain) : Accepts(k, series)
    THEN DetectorChain[CHOOSE k \in 1..Len(DetectorChain) :
                          Accepts(k, series) /\ \A j \in 1..(k - 1) : ~Accepts(j, series)]
    ELSE "string"

C1_IsFirstAccepted(series, field_type) ==
    field_type \in FieldTypes /\ field_type = FirstAccepted(series)

C1_FirstAcceptingCheckWins == ForEveryDetection(C1_IsFirstAccepted)

\* A text column of "0" and "1", which the boolean and the integer check both
\* accept, came out boolean.
C1_Witness ==
    /\ ret.op = "detect_field_type"
    /\ ret.val = Some("boolean")
    /\ arg_series[1].dtype = "object"
    /\ {arg_series[1].cells[i] : i \in 1..Len(arg_series[1].cells)} = {StrCell("0"), StrCell("1")}
    /\ IsBoolean(arg_series[1]) /\ IsInteger(arg_series[1])

(***************************************************************************)
(* C2.  For a column with a non-missing value, the detector returns id     *)
(* exactly when the lower-cased name matches one of the ten patterns and   *)
(* distinct non-missing values / total rows >= 0.90; the UUID and the      *)
(* numeric range sub-checks change nothing.                                *)
(***************************************************************************)
\* The names of PatternNames that match one of the ten patterns.
ExpectedIdNames ==
    {<<"i", "d">>, UserId, <<"i", "d", "_", "n", "o">>,
     <<"a", "n", "i", "d", "e", "n", "t", "i", "f", "i", "e", "r", "s">>,
     <<"a", "p", "i", "k", "e", "y">>, <<"z", "i", "p", "c", "o", "d", "e">>,
     <<"u", "u", "i", "d">>, <<"x", "u", "u", "i", "d", "s">>, Pk, <<"r", "o", "w", "p", "k">>,
     <<"I", "D">>, <<"U", "s", "e", "r", "_", "I", "D">>}

DistinctValues(cells) == {cells[i] : i \in {j \in 1..Len(cells) : cells[j].t # "na"}}

C2_IdRule(series, field_type) ==
    HasValue(series.cells) =>
        (field_type = "id" <=>
            /\ series.name \in ExpectedIdNames
            /\ 10 * Cardinality(DistinctValues(series.cells)) >= 9 * Len(series.cells))

C2_IdIffNameAndUniqueness == ForEveryDetection(C2_IdRule)

\* An id whose numbers fail the range sub-check (one is negative) and that is
\* no text column: only the final return accepts it.
C2_Witness ==
    /\ ret.op = "detect_field_type"
    /\ ret.val = Some("id")
    /\ arg_series[1].dtype = "int64"
    /\ \E i \in 1..Len(arg_series[1].cells) : arg_series[1].cells[i].n < 0

C4_VariantMatchesType(fa) ==
    /\ fa.categorical_stats # None <=> fa.field_type \in {"categorical", "boolean", "id"}
    /\ fa.numerical_stats # None <=> fa.field_type \in {"integer", "float"}
    /\ fa.string_stats # None <=> fa.field_type = "string"
    /\ fa.datetime_stats # None <=> fa.field_type = "datetime"
    /\ fa.categorical_stats # None => fa.categorical_stats[1].kind = "categorical"
    /\ fa.numerical_stats # None => fa.numerical_stats[1].kind = "numerical"
    /\ fa.string_stats # None => fa.string_stats[1].kind = "string"
    /\ fa.datetime_stats # None => fa.datetime_stats[1].kind = "datetime"
    /\ Cardinality({k \in 1..4 :
            <<fa.categorical_stats, fa.numerical_stats, fa.string_stats, fa.datetime_stats>>[k]
                # None}) = IF fa.field_type = "unknown" THEN 0 ELSE 1

C4_StatsVariantDeterminedByType ==
    result # None => \A i \in 1..Len(result[1].fields) : C4_VariantMatchesType(result[1].fields[i])

\* A field of type id carrying categorical statistics.
C4_Witness ==
    /\ result # None
    /\ \E i \in 1..Len(result[1].fields) :
          /\ result[1].fields[i].field_type = "id"
          /\ result[1].fields[i].categorical_stats # None

(***************************************************************************)
(* C5.  calculate_field_statistics(series, field_type) selects, for every  *)
(* field type, the variant that _analyze_field selects: categorical        *)
(* statistics for categorical, boolean and id, numerical for integer and   *)
(* float, string for string, datetime for datetime, None for unknown.      *)
(***************************************************************************)
\* The variant _analyze_field populates for the series, or None.
AnalyzerStats(series) ==
    LET fa == AnalyzeField(series, series.name, <<>>)
    IN  IF fa.categorical_stats # None THEN fa.categorical_stats
        ELSE IF fa.numerical_stats # None THEN fa.numerical_stats
        ELSE IF fa.string_stats # None THEN fa.string_stats
        ELSE fa.datetime_stats

C5_DispatchAgreesWithAnalyzer ==
    ret.op = "calculate_field_statistics" => ret.val = AnalyzerStats(arg_series[1])

(***************************************************************************)
(* C6.  In every statistics record missing_count is the number of missing  *)
(* cells of the original column, so missing_count plus the number of       *)
(* non-missing cells is the number of rows; a present cell that fails      *)
(* numeric or datetime coercion is not counted.                            *)
(***************************************************************************)
C6_CountsMissingCells(series, st) ==
    /\ st.missing_count = Cardinality({i \in 1..Len(series.cells) : series.cells[i].t = "na"})
    /\ st.missing_count + Cardinality({i \in 1..Len(series.cells) : series.cells[i].t # "na"})
          = Len(series.cells)

C6_MissingCountIsMissingCells ==
    /\ ForEveryStats(C6_CountsMissingCells)
    /\ result # None =>
          \A i \in 1..Len(result[1].fields) :
             result[1].fields[i].total_count = Len(ResultColumn(i).cells)

\* Numerical statistics of an analysed column with a present cell that is no
\* number: the cell is dropped from the numbers and not counted as missing.
C6_Witness ==
    /\ result # None
    /\ \E i \in 1..Len(result[1].fields) :
          /\ result[1].fields[i].numerical_stats # None
          /\ \E j \in 1..Len(ResultColumn(i).cells) :
                ResultColumn(i).cells[j].t # "na" /\ NumOf(ResultColumn(i).cells[j]) = None
          /\ result[1].fields[i].numerical_stats[1].missing_count = 0

(***************************************************************************)
(* C7.  In every statistics record 0 <= missing_percentage <= 100, and it  *)
(* is 0 for a column of zero rows; categorical top_values has at most 10   *)
(* entries, each with a percentage in [0, 100].                            *)
(***************************************************************************)
PercentInRange(x) == ~x.nan /\ x.d > 0 /\ 0 <= x.n /\ x.n <= 100 * x.d

C7_PercentagesBounded(series, st) ==
    /\ PercentInRange(st.missing_percentage)
    /\ Len(series.cells) = 0 => st.missing_percentage.n = 0
    /\ st.kind = "categorical" =>
          /\ Len(st.top_values) <= 10
          /\ \A i \in 1..Len(st.top_values) : PercentInRange(st.top_values[i].percentage)

C7_PercentagesInRange == ForEveryStats(C7_PercentagesBounded)

\* Categorical statistics of a column of more than ten distinct values.
C7_Witness ==
    /\ ret.op = "calculate_categorical_stats"
    /\ Cardinality(DistinctValues(arg_series[1].cells)) > 10
    /\ Len(ret.val[1].top_values) = 10

(***************************************************************************)
(* C8.  An AnalysisResult holds exactly one FieldAnalysis per column of    *)
(* the loaded dataset, in the dataset's column order: fields[i].name is    *)
(* the name of column i and len(fields) = total_columns.                   *)
(***************************************************************************)
C8_OneFieldPerColumn ==
    result # None =>
        LET df == disk[result[1].file_path][1]
        IN  /\ Len(result[1].fields) = result[1].total_columns
            /\ Len(result[1].fields) = Len(df.columns)
            /\ \A i \in 1..Len(df.columns) : result[1].fields[i].name = df.columns[i].name
            /\ result[1].total_rows = df.nrows

\* The result of a file of two columns, one of them without a value.
C8_Witness ==
    /\ result # None
    /\ Len(result[1].fields) = 2
    /\ \E i \in 1..2 : ~HasValue(ResultColumn(i).cells)
    /\ \E i \in 1..2 : HasValue(ResultColumn(i).cells)

(***************************************************************************)
(* C9.  Saving an AnalysisResult with save_analysis_to_json and reading it *)
(* back with load_analysis_from_json yields a record equal to it.          *)
(***************************************************************************)
C9_RoundTripEqual ==
    (/\ ret.op = "load_analysis_from_json"
     /\ result # None
     /\ json_file = Some(DumpAnalysisResult(result[1])))
        => EqAnalysisResult(ret.val[1], result[1])

(***************************************************************************)
(* C11.  A column with a value whose every non-missing value is numeric-   *)
(* coercible and a whole number (native integers, whole native floats,     *)
(* texts of whole numbers) is detected as integer unless the ID, boolean   *)
(* or datetime check accepts it first; it is never float, categorical or   *)
(* string.                                                                 *)
(***************************************************************************)
WholeNumberCell(c) ==
    \/ c.t \in {"int", "bool"}
    \/ c.t = "float" /\ c.n % 2 = 0
    \/ c.t = "str" /\ c.s \in {"0", "1", "7"}

C11_WholeIsInteger(series, field_type) ==
    (/\ HasValue(series.cells)
     /\ \A i \in 1..Len(series.cells) :
           series.cells[i].t # "na" => WholeNumberCell(series.cells[i]))
        => /\ field_type \in {"integer", "id", "boolean", "datetime"}
           /\ field_type = "id" => IsIdField(series)
           /\ field_type = "boolean" => IsBoolean(series)
           /\ field_type = "datetime" => IsDatetime(series)

C11_WholeNumbersAreInteger == ForEveryDetection(C11_WholeIsInteger)

\* A native float column of whole numbers came out integer.
C11_Witness ==
    /\ ret.op = "detect_field_type"
    /\ ret.val = Some("integer")
    /\ arg_series[1].dtype = "float64"
    /\ \E i \in 1..Len(arg_series[1].cells) : arg_series[1].cells[i].t = "float"

(***************************************************************************)
(* C12, as stated.  For a column the ID rule does not accept, the boolean  *)
(* check accepts a natively boolean column, and otherwise any column whose *)
(* non-missing values all have a lower-cased, trimmed string form in the   *)
(* twelve boolean words, whatever its native type: such a column is        *)
(* detected as boolean.                                                    *)
(***************************************************************************)
BooleanWords(series) ==
    \A i \in 1..Len(series.cells) :
       series.cells[i].t # "na" => LowerStrip(StrOf(series.cells[i])) \in BoolPatterns

C12_AnyTypeRule(series, field_type) ==
    (HasValue(series.cells) /\ ~IsIdField(series))
        => (field_type = "boolean" <=> (series.dtype = "bool" \/ BooleanWords(series)))

C12_BooleanWhateverNativeType == ForEveryDetection(C12_AnyTypeRule)

(***************************************************************************)
(* C12, amended.  For a column the ID rule does not accept, the boolean    *)
(* check accepts a natively boolean column, and otherwise only a column of *)
(* objects (text) whose non-missing values all have a lower-cased, trimmed *)
(* string form in the twelve boolean words; a native integer column of 0   *)
(* and 1 is not boolean.                                                   *)
(***************************************************************************)
C12_TextRule(series, field_type) ==
    (HasValue(series.cells) /\ ~IsIdField(series))
        => (field_type = "boolean" <=>
               (series.dtype = "bool" \/ (series.dtype = "object" /\ BooleanWords(series))))

C12_BooleanOnlyNativeOrText == ForEveryDetection(C12_TextRule)

\* A native integer column of 0 and 1 came out integer.
C12_Witness ==
    /\ ret.op = "detect_field_type"
    /\ ret.val = Some("integer")
    /\ arg_series[1].dtype = "int64"
    /\ {arg_series[1].cells[i] : i \in 1..Len(arg_series[1].cells)} = {IntCell(0), IntCell(1)}

(***************************************************************************)
(* C13.  A column that no earlier check accepts is categorical iff         *)
(* distinct non-missing values / non-missing count <= 0.10, or it is a     *)
(* text column and the ratio <= 0.30 (both inclusive); otherwise string.   *)
(* The text column A,B,A,C,B,A,D,C is string.                              *)
(***************************************************************************)
NonMissingCount(cells) == Cardinality({i \in 1..Len(cells) : cells[i].t # "na"})

C13_RatioRule(series, field_type) ==
    /\ (/\ HasValue(series.cells)
        /\ ~IsIdField(series) /\ ~IsBoolean(series) /\ ~IsDatetime(series)
        /\ ~IsInteger(series) /\ ~IsFloat(series))
          => /\ field_type \in {"categorical", "string"}
             /\ field_type = "categorical" <=>
                   \/ 10 * Cardinality(DistinctValues(series.cells))
                         <= NonMissingCount(series.cells)
                   \/ /\ series.dtype = "object"
                      /\ 10 * Cardinality(DistinctValues(series.cells))
                            <= 3 * NonMissingCount(series.cells)
    /\ (/\ series.dtype = "object"
        /\ series.cells = <<StrCell("A"), StrCell("B"), StrCell("A"), StrCell("C"),
                            StrCell("B"), StrCell("A"), StrCell("D"), StrCell("C")>>
        /\ ~NameMatches(Lower(series.name)))
          => field_type = "string"

C13_CategoricalByRatio == ForEveryDetection(C13_RatioRule)

\* A text column of exactly three distinct values in ten came out categorical.
C13_Witness ==
    /\ ret.op = "detect_field_type"
    /\ ret.val = Some("categorical")
    /\ arg_series[1].dtype = "object"
    /\ NonMissingCount(arg_series[1].cells) = 10
    /\ Cardinality(DistinctValues(arg_series[1].cells)) = 3

(***************************************************************************)
(* C14.  For a column with a numeric value, numerical stats hold the exact *)
(* min and max, the mean and the median (to 4 decimals), and the 25th,     *)
(* 50th and 75th percentiles by linear interpolation at position p*(n-1)   *)
(* of the sorted values.  The column 1..10 named number is integer with    *)
(* min 1, max 10, mean 5.5, median 5.5, q25 3.25, q75 7.75 and no missing  *)
(* value.                                                                  *)
(***************************************************************************)
OneToTen == [name |-> Number, dtype |-> "int64", cells |-> [i \in 1..10 |-> IntCell(i)]]

\* The numbers of the column (in halves), as a set of positions and in order.
NumberAt(series, i) == NumOf(series.cells[i])[1]
NumberPositions(series) == {i \in 1..Len(series.cells) : NumOf(series.cells[i]) # None}

\* x is within half a unit of the last digit of the quotient p / q (q > 0).
RoundsTo(x, unit, p, q) ==
    LET diff == x * q - p * unit
    IN  2 * (IF diff < 0 THEN 0 - diff ELSE diff) <= q

\* x / 8 is the value at position (k / 4) * (n - 1) of the ascending numbers,
\* interpolated linearly between its two neighbours.
Interpolated(x, k, series) ==
    LET pos == NumberPositions(series)
        n == Cardinality(pos)
        \* the number with exactly r numbers before it in ascending order
        Ranked(r) == NumberAt(series, CHOOSE i \in pos :
                        /\ Cardinality({j \in pos : NumberAt(series, j) < NumberAt(series, i)}) <= r
                        /\ Cardinality({j \in pos : NumberAt(series, j) <= NumberAt(series, i)}) > r)
        lo == (k * (n - 1)) \div 4
        fr == (k * (n - 1)) % 4
    IN  x = 4 * Ranked(lo) + (IF fr = 0 THEN 0 ELSE fr * (Ranked(lo + 1) - Ranked(lo)))

C14_StatsOfNumbers(series, st) ==
    (st.kind = "numerical" /\ NumberPositions(series) # {}) =>
        LET pos == NumberPositions(series)
            n == Cardinality(pos)
            total == Sum([i \in 1..Len(series.cells) |->
                            IF i \in pos THEN NumberAt(series, i) ELSE 0])
        IN  /\ \E i \in pos : st.min_value = Some(Flt(NumberAt(series, i), 2))
            /\ \E i \in pos : st.max_value = Some(Flt(NumberAt(series, i), 2))
            /\ \A i \in pos : /\ st.min_value[1].n <= NumberAt(series, i)
                              /\ NumberAt(series, i) <= st.max_value[1].n
            /\ st.mean[1].d = 10000 /\ RoundsTo(st.mean[1].n, 10000, total, 2 * n)
            /\ st.median[1].d = 10000 /\ Interpolated(st.median[1].n \div 1250, 2, series)
            /\ st.median[1].n % 1250 = 0
            /\ st.quartiles[1].q25.d = 8 /\ Interpolated(st.quartiles[1].q25.n, 1, series)
            /\ st.quartiles[1].q50.d = 8 /\ Interpolated(st.quartiles[1].q50.n, 2, series)
            /\ st.quartiles[1].q75.d = 8 /\ Interpolated(st.quartiles[1].q75.n, 3, series)

C14_NumericalStatsValues ==
    /\ ForEveryStats(C14_StatsOfNumbers)
    /\ (ret.op = "_analyze_field" /\ arg_series = Some(OneToTen)) =>
          /\ ret.val[1].field_type = "integer"
          /\ ret.val[1].numerical_stats # None
          /\ LET st == ret.val[1].numerical_stats[1]
             IN  /\ st.min_value = Some(Flt(2, 2))
                 /\ st.max_value = Some(Flt(20, 2))
                 /\ st.mean = Some(Flt(55000, 10000))
                 /\ st.median = Some(Flt(55000, 10000))
                 /\ st.quartiles[1].q25 = Flt(26, 8)
                 /\ st.quartiles[1].q50 = Flt(44, 8)
                 /\ st.quartiles[1].q75 = Flt(62, 8)
                 /\ st.missing_count = 0

\* The column 1..10 was analysed.
C14_Witness ==
    /\ ret.op = "_analyze_field"
    /\ arg_series = Some(OneToTen)
    /\ ret.val[1].numerical_stats # None
    /\ ret.val[1].numerical_stats[1].quartiles[1].q25 = Flt(26, 8)

(***************************************************************************)
(* C15.  unique_count of categorical stats is the number of distinct       *)
(* non-missing values of the column, also for a column with missing cells  *)
(* (the missing marker is not counted as a value).                         *)
(***************************************************************************)
C15_CountsNonMissing(series, st) ==
    st.kind = "categorical" => st.unique_count = Cardinality(DistinctValues(series.cells))

C15_UniqueCountExcludesMissing == ForEveryStats(C15_CountsNonMissing)

(***************************************************************************)
(* C16.  top_values of categorical stats lists the (at most 10) most       *)
(* frequent non-missing values in non-increasing order of count: no value  *)
(* twice, no missing marker, every omitted value with a count <= the       *)
(* smallest listed count, and each percentage = count / total rows * 100.  *)
(***************************************************************************)
Occurrences(series, c) == Cardinality({i \in 1..Len(series.cells) : series.cells[i] = c})

C16_MostFrequentFirst(series, st) ==
    st.kind = "categorical" =>
        LET top == st.top_values
            values == DistinctValues(series.cells)
            listed == {c \in values : \E i \in 1..Len(top) : top[i].value = StrOf(c)}
        IN  /\ Len(top) = IF Cardinality(values) < 10 THEN Cardinality(values) ELSE 10
            /\ \A i \in 1..Len(top) :
                  \E c \in values : /\ top[i].value = StrOf(c)
                                    /\ top[i].count = Occurrences(series, c)
            /\ \A i, j \in 1..Len(top) : i < j =>
                  /\ top[i].value # top[j].value
                  /\ top[i].count >= top[j].count
            /\ \A c \in values \ listed :
                  \A i \in 1..Len(top) : Occurrences(series, c) <= top[i].count
            /\ \A i \in 1..Len(top) :
                  top[i].percentage = Flt(top[i].count * 100, Len(series.cells))

C16_TopValuesByFrequency == ForEveryStats(C16_MostFrequentFirst)

\* Categorical statistics of a column whose most frequent value is not the
\* one that appears first.
C16_Witness ==
    /\ ret.op = "calculate_categorical_stats"
    /\ Len(ret.val[1].top_values) >= 2
    /\ ret.val[1].top_values[1].count > ret.val[1].top_values[2].count
    /\ ret.val[1].top_values[1].value # StrOf(arg_series[1].cells[1])

(***************************************************************************)
(* C17.  calculate_numerical_stats does not raise on values that are no    *)
(* number: they are left out of min, max, mean, median, std_dev and the    *)
(* quartiles only.  With no number left, those six are None, and           *)
(* missing_count and missing_percentage are still those of the column.     *)
(***************************************************************************)
\* The cells pd.to_numeric makes a number of.
Coercible(c) ==
    \/ c.t \in {"int", "float", "bool"}
    \/ c.t = "str" /\ c.s \in {"0", "1", "7", "2.5"}

C17_DropsNonNumbers(series, st) ==
    st.kind = "numerical" =>
        LET numbers == {i \in 1..Len(series.cells) : Coercible(series.cells[i])}
            missing == Cardinality({i \in 1..Len(series.cells) : series.cells[i].t = "na"})
        IN  /\ st.missing_count = missing
            /\ st.missing_percentage.d = 100
            /\ IF Len(series.cells) = 0 THEN st.missing_percentage.n = 0
               ELSE RoundsTo(st.missing_percentage.n, 100, missing * 100, Len(series.cells))
            /\ IF numbers = {}
               THEN /\ st.min_value = None /\ st.max_value = None
                    /\ st.mean = None /\ st.median = None
                    /\ st.std_dev = None /\ st.quartiles = None
               ELSE /\ \E i \in numbers : st.min_value = Some(Flt(NumberAt(series, i), 2))
                    /\ \E i \in numbers : st.max_value = Some(Flt(NumberAt(series, i), 2))
                    /\ \A i \in numbers : /\ st.min_value[1].n <= NumberAt(series, i)
                                          /\ NumberAt(series, i) <= st.max_value[1].n
                    /\ st.mean # None /\ st.median # None
                    /\ st.std_dev # None /\ st.quartiles # None

C17_NonNumbersAreDropped ==
    /\ ForEveryStats(C17_DropsNonNumbers)
    /\ ret.op = "calculate_numerical_stats" => (ret.raised = "" /\ ret.val # None)

\* Numerical statistics of a column of a number and a text that is none.
C17_Witness ==
    /\ ret.op = "calculate_numerical_stats"
    /\ \E i \in 1..Len(arg_series[1].cells) : Coercible(arg_series[1].cells[i])
    /\ \E i \in 1..Len(arg_series[1].cells) :
          arg_series[1].cells[i].t = "str" /\ ~Coercible(arg_series[1].cells[i])
    /\ ret.val[1].min_value # None
    /\ ret.val[1].missing_count = 0

(***************************************************************************)
(* C18.  String stats are computed over exactly the non-missing cells of   *)
(* the column, each by its text: no missing cell, whichever its marker,    *)
(* contributes a length, and no present value (the text "nan" included) is *)
(* left out.  With no non-missing value the lengths are None and           *)
(* unique_count is 0.                                                      *)
(***************************************************************************)
C18_OverNonMissing(series, st) ==
    st.kind = "string" =>
        LET present == {i \in 1..Len(series.cells) : series.cells[i].t # "na"}
            TextAt(i) == StrOf(series.cells[i])
        IN  IF present = {}
            THEN /\ st.min_length = None /\ st.max_length = None /\ st.avg_length = None
                 /\ st.unique_count = 0
            ELSE /\ \E i \in present : st.min_length = Some(Len(TextAt(i)))
                 /\ \E i \in present : st.max_length = Some(Len(TextAt(i)))
                 /\ \A i \in present : /\ st.min_length[1] <= Len(TextAt(i))
                                       /\ Len(TextAt(i)) <= st.max_length[1]
                 /\ st.unique_count = Cardinality({TextAt(i) : i \in present})
                 /\ st.avg_length # None

C18_StringStatsOverNonMissing == ForEveryStats(C18_OverNonMissing)

(***************************************************************************)
(* C19.  sample_values of every FieldAnalysis has exactly min(5, d)        *)
(* elements, d the number of distinct non-missing values of the column;    *)
(* they are pairwise distinct, each is a non-missing value of the column,  *)
(* and for d <= 5 all d distinct values are among them.                    *)
(***************************************************************************)
\* The sample is the cell, or the integer tolist() makes of a Timestamp.
SameValue(sample, c) == sample = c \/ (c.t = "ts" /\ sample = IntCell(c.n))

C19_SamplesOf(series, fa) ==
    LET values == DistinctValues(series.cells)
        d == Cardinality(values)
        sv == fa.sample_values
    IN  /\ Len(sv) = IF d < 5 THEN d ELSE 5
        /\ \A i, j \in 1..Len(sv) : i # j => sv[i] # sv[j]
        /\ \A i \in 1..Len(sv) : \E c \in values : SameValue(sv[i], c)
        /\ d <= 5 => \A c \in values : \E i \in 1..Len(sv) : SameValue(sv[i], c)

C20_SampleRows ==
    (ret.op = "get_sample" /\ data # None) =>
        LET got == ret.val[1]
            k == IF got.n < data[1].nrows THEN got.n ELSE data[1].nrows
        IN  /\ ret.raised = ""
            /\ Len(got.rows) = k
            /\ \A i \in 1..k : got.rows[i] \in 1..data[1].nrows
            /\ \A i, j \in 1..k : i # j => got.rows[i] # got.rows[j]
            /\ got.sample_type = "head" => got.rows = [i \in 1..k |-> i]
            /\ got.sample_type = "random" =>
                  got.rows = SubSeq(Permutation(RandomState(42), data[1].nrows), 1, k)

\* A random sample of two rows that is not the first two rows in order.
C20_Witness ==
    /\ ret.op = "get_sample"
    /\ ret.val # None
    /\ ret.val[1].sample_type = "random"
    /\ Len(ret.val[1].rows) = 2
    /\ ret.val[1].rows # <<1, 2>>

(***************************************************************************)
(* C22.  The datetime check accepts a column only if it is natively        *)
(* datetime, or it is a text column and strictly more than 80% of its      *)
(* first min(100, k) non-missing values, in row order, parse as a date:    *)
(* exactly 80% is rejected, values after the 100th non-missing value have  *)
(* no influence, and a column of another native type never passes.         *)
(***************************************************************************)
\* The rows of the first 100 non-missing values.
FirstHundred(series) ==
    {i \in 1..Len(series.cells) :
        /\ series.cells[i].t # "na"
        /\ Cardinality({j \in 1..(i - 1) : series.cells[j].t # "na"}) < 100}

\* The rows of FirstHundred whose value is a date.
DateHits(series) ==
    {i \in FirstHundred(series) :
        \/ series.cells[i].t = "ts"
        \/ series.cells[i].t = "str" /\ series.cells[i].s \in {"2020-01-01", "2021-06-30"}}

C22_DatetimeRule(series, field_type) ==
    /\ (HasValue(series.cells) /\ ~IsIdField(series) /\ ~IsBoolean(series))
          => (field_type = "datetime" <=>
                 \/ series.dtype = "datetime64"
                 \/ /\ series.dtype = "object"
                    /\ 5 * Cardinality(DateHits(series)) > 4 * Cardinality(FirstHundred(series)))
    /\ series.dtype \notin {"object", "datetime64"} => field_type # "datetime"

C22_DatetimeByFirstHundred == ForEveryDetection(C22_DatetimeRule)

\* A text column came out datetime on 81 dates in its first 100 values,
\* though its other 30 values are no dates.
C22_Witness ==
    /\ ret.op = "detect_field_type"
    /\ ret.val = Some("datetime")
    /\ arg_series[1].dtype = "object"
    /\ NonMissingCount(arg_series[1].cells) = 130
    /\ Cardinality(DateHits(arg_series[1])) = 81
    /\ 5 * Cardinality({i \in 1..Len(arg_series[1].cells) :
                           arg_series[1].cells[i] = StrCell("2020-01-01")})
          < 4 * NonMissingCount(arg_series[1].cells)

\* A text column of exactly four dates in five values did not come out datetime.
C22_WitnessExactly80 ==
    /\ ret.op = "detect_field_type"
    /\ ret.val # Some("datetime")
    /\ arg_series[1].dtype = "object"
    /\ Cardinality(FirstHundred(arg_series[1])) = 5
    /\ Cardinality(DateHits(arg_series[1])) = 4

(***************************************************************************)
(* C23.  For a column that reaches the integer and float checks, the       *)
(* values numeric coercion fails on are ignored: with a coerced value and  *)
(* every coerced value whole the column is integer, with a coerced value   *)
(* that is not whole it is float, and only with no coerced value is it     *)
(* neither.  A text column of whole-number texts and other texts is        *)
(* integer, not categorical or string.                                     *)
(***************************************************************************)
C23_CoercionRule(series, field_type) ==
    (/\ HasValue(series.cells)
     /\ ~IsIdField(series) /\ ~IsBoolean(series) /\ ~IsDatetime(series))
        => LET coerced == {i \in 1..Len(series.cells) : Coercible(series.cells[i])}
               whole == {i \in coerced : WholeNumberCell(series.cells[i])}
           IN  /\ (coerced # {} /\ whole = coerced) => field_type = "integer"
               /\ whole # coerced => field_type = "float"
               /\ coerced = {} => field_type \in {"categorical", "string"}

C23_FailedCoercionIgnored == ForEveryDetection(C23_CoercionRule)

\* A text column of a whole-number text and a text that is no number came out
\* integer.
C23_Witness ==
    /\ ret.op = "detect_field_type"
    /\ ret.val = Some("integer")
    /\ arg_series[1].dtype = "object"
    /\ \E i \in 1..Len(arg_series[1].cells) : arg_series[1].cells[i] = StrCell("7")
    /\ \E i \in 1..Len(arg_series[1].cells) : arg_series[1].cells[i] = StrCell("abc")

(***************************************************************************)
(* C25.  total_missing of the summary, in the reporter and in the CLI      *)
(* alike, is the sum over the fields of the missing_count of the one       *)
(* statistics variant the field has, or 0 for a field without one; a       *)
(* variant with missing_count 0 adds 0.                                    *)
(***************************************************************************)
SummaryOps == {"_calculate_summary_stats", "_display_summary"}

\* What the variants of one field hold as missing_count, each taken alone.
VariantMissing(fa) ==
    (IF fa.categorical_stats # None THEN fa.categorical_stats[1].missing_count ELSE 0)
    + (IF fa.numerical_stats # None THEN fa.numerical_stats[1].missing_count ELSE 0)
    + (IF fa.string_stats # None THEN fa.string_stats[1].missing_count ELSE 0)
    + (IF fa.datetime_stats # None THEN fa.datetime_stats[1].missing_count ELSE 0)

Populated(fa) ==
    {v \in {fa.categorical_stats, fa.numerical_stats, fa.string_stats, fa.datetime_stats} :
        v # None}

C25_TotalMissingSumsVariants ==
    (ret.op \in SummaryOps /\ ret.raised = "") =>
        /\ \A i \in 1..Len(result[1].fields) : Cardinality(Populated(result[1].fields[i])) <= 1
        /\ ret.val[1].total_missing
              = Sum([i \in 1..Len(result[1].fields) |-> VariantMissing(result[1].fields[i])])

\* A summary whose total counts the missing cell of a string field, beside a
\* field whose variant holds missing_count 0.
C25_Witness ==
    /\ ret.op = "_calculate_summary_stats"
    /\ ret.raised = ""
    /\ ret.val[1].total_missing > 0
    /\ \E i \in 1..Len(result[1].fields) :
          /\ result[1].fields[i].string_stats # None
          /\ result[1].fields[i].string_stats[1].missing_count > 0
    /\ \E i \in 1..Len(result[1].fields) :
          /\ result[1].fields[i].numerical_stats # None
          /\ result[1].fields[i].numerical_stats[1].missing_count = 0

(***************************************************************************)
(* C26.  Whenever a numeric value remains after coercion, min_value,       *)
(* max_value, mean, median, std_dev and the three quartiles are all        *)
(* populated with finite numbers, and min <= q25 <= q50 <= q75 <= max;     *)
(* also when exactly one numeric value remains.                            *)
(***************************************************************************)
C26_FiniteOrdered(series, st) ==
    (/\ st.kind = "numerical"
     /\ \E i \in 1..Len(series.cells) : Coercible(series.cells[i]))
        => /\ st.min_value # None /\ st.max_value # None
           /\ st.mean # None /\ st.median # None
           /\ st.std_dev # None /\ st.quartiles # None
           /\ ~st.min_value[1].nan /\ ~st.max_value[1].nan
           /\ ~st.mean[1].nan /\ ~st.median[1].nan /\ ~st.std_dev[1].nan
           /\ ~st.quartiles[1].q25.nan /\ ~st.quartiles[1].q50.nan /\ ~st.quartiles[1].q75.nan
           \* min and max count halves, the quartiles eighths
           /\ 4 * st.min_value[1].n <= st.quartiles[1].q25.n
           /\ st.quartiles[1].q25.n <= st.quartiles[1].q50.n
           /\ st.quartiles[1].q50.n <= st.quartiles[1].q75.n
           /\ st.quartiles[1].q75.n <= 4 * st.max_value[1].n

C26_NumericalStatsFinite == ForEveryStats(C26_FiniteOrdered)

(***************************************************************************)
(* C29.  For every result of analyze_file, total_missing of the summary is *)
(* the number of missing cells of the analysed dataset and the             *)
(* completeness is (cells - missing cells) / cells * 100, also for a       *)
(* dataset with a column of missing values only.                           *)
(***************************************************************************)
\* The missing cells of the file the held result was made from.
MissingCells ==
    LET df == disk[result[1].file_path][1]
    IN  Cardinality({<<i, j>> \in (1..Len(df.columns)) \X (1..df.nrows) :
                        df.columns[i].cells[j].t = "na"})

C29_SummaryCountsMissingCells ==
    (ret.op \in SummaryOps /\ ret.raised = "") =>
        LET df == disk[result[1].file_path][1]
            cells == Len(df.columns) * df.nrows
        IN  /\ ret.val[1].total_missing = MissingCells
            /\ (ret.op = "_calculate_summary_stats" /\ cells > 0) =>
                  /\ ret.val[1].completeness_percentage.d = 100
                  /\ RoundsTo(ret.val[1].completeness_percentage.n, 100,
                              (cells - MissingCells) * 100, cells)
            /\ (ret.op = "_display_summary" /\ cells > 0) =>
                  /\ ret.val[1].completeness.d = 10
                  /\ RoundsTo(ret.val[1].completeness.n, 10,
                              (cells - MissingCells) * 100, cells)

(***************************************************************************)
(* C30.  The reporter's summary never raises for a result of analyze_file: *)
(* for a dataset of columns without rows it returns a                      *)
(* completeness_percentage, as the CLI summary does.                       *)
(***************************************************************************)
C30_SummaryNeverRaises ==
    ret.op \in SummaryOps => (ret.raised = "" /\ ret.val # None)

(***************************************************************************)
(* C21.  A failure inside analyze_file ends the call with one error and    *)
(* without an AnalysisResult, not even a partial one.  A missing file is   *)
(* refused by the loader with the not-found error before any column is     *)
(* analysed; a source no reader parses and an error while a column is      *)
(* analysed leave analyze_file as one error that is not the not-found      *)
(* error (AnalysisFailed: whatever exception the failing step raised).     *)
(***************************************************************************)
\* The file is there, and loading it or analysing one of its columns fails.
FailsAfterFound(path) ==
    /\ disk[path] # None
    /\ \/ disk[path][1] = Corrupt
       \/ \E i \in 1..Len(disk[path][1].columns) : disk[path][1].columns[i].name = IntLabel

C21_ErrorOrResult ==
    ret.op = "analyze_file" =>
        /\ ret.raised # "" => ret.val = None
        /\ ret.raised = "" => (ret.val # None /\ ret.val = result)
        /\ disk[ret.arg[1]] = None <=> ret.raised = "FileNotFoundError"
        /\ FailsAfterFound(ret.arg[1]) <=> ret.raised \notin {"", "FileNotFoundError"}

\* A failed call hands the caller nothing; one that fails on a missing file
\* has loaded and analysed nothing.
C21_FailedStep ==
    (ret'.op = "analyze_file" /\ ret'.raised # "") =>
        /\ result' = result
        /\ ret'.raised = "FileNotFoundError" => (data' = data /\ np_random' = np_random)

C21_FailureAbortsWithoutResult == [](C21_ErrorOrResult) /\ [][C21_FailedStep]_vars

\* analyze_file failed on the second column of a file, after it had analysed
\* the first, and returned nothing.
C21_Witness ==
    /\ ret.op = "analyze_file"
    /\ ret.raised = "AttributeError"
    /\ ret.val = None
    /\ result = None
    /\ FailingColumn(disk[ret.arg[1]][1]) = 2

(***************************************************************************)
(* C27.  In any sequence of operations on one DataAnalyzer, get_sample and *)
(* generate_charts work on the dataset of the most recent analyze_file     *)
(* call whose load step succeeded: before the first such call get_sample   *)
(* returns None and generate_charts raises ValueError, and after           *)
(* analyze_file(A) and analyze_file(B) both read B's data, also when       *)
(* generate_charts is passed the AnalysisResult of A.                      *)
(***************************************************************************)
\* The frame of the file whose load succeeded last.
LastLoaded == disk[hist.loaded[1]][1]

C27_ReadsLastLoaded ==
    /\ ret.op = "get_sample" =>
          IF hist.loaded = None THEN ret.val = None
          ELSE /\ ret.val # None
               /\ ret.val[1].columns
                     = [j \in 1..Len(LastLoaded.columns) |-> LastLoaded.columns[j].name]
               /\ Len(ret.val[1].values)
                     = IF ret.val[1].n < LastLoaded.nrows THEN ret.val[1].n ELSE LastLoaded.nrows
               /\ \A i \in 1..Len(ret.val[1].values) :
                     \A j \in 1..Len(LastLoaded.columns) :
                        ret.val[1].values[i][j] = LastLoaded.columns[j].cells[ret.val[1].rows[i]]
    /\ ret.op = "generate_charts" =>
          IF hist.loaded = None THEN ret.raised = "ValueError"
          ELSE LET fields == ret.arg[1].fields
                   absent == {i \in 1..Len(fields) :
                                 \A j \in 1..Len(LastLoaded.columns) :
                                    LastLoaded.columns[j].name # fields[i].name}
               IN  /\ ret.raised = (IF absent = {} THEN "" ELSE "KeyError")
                   /\ ret.raised = "" =>
                         \A i \in 1..Len(fields) :
                            ret.val[1].fields[i].chart # None =>
                               \E j \in 1..Len(LastLoaded.columns) :
                                  /\ LastLoaded.columns[j].name = fields[i].name
                                  /\ ret.val[1].fields[i].chart[1] = LastLoaded.columns[j]

\* generate_charts, passed the result of one file after another file was
\* analysed, drew a chart from a column of the other file.
C27_Witness ==
    /\ ret.op = "generate_charts"
    /\ ret.raised = ""
    /\ hist.loaded # None
    /\ ret.arg[1].file_path \in Paths \ {hist.loaded[1]}
    /\ disk[ret.arg[1].file_path] # None
    /\ \E i \in 1..Len(ret.val[1].fields) :
          /\ ret.val[1].fields[i].chart # None
          /\ \A j \in 1..Len(disk[ret.arg[1].file_path][1].columns) :
                ret.val[1].fields[i].chart[1] # disk[ret.arg[1].file_path][1].columns[j]

(***************************************************************************)
(* C28.  State is unchanged on error: when an analyze_file call raises, at *)
(* the load step or while a column is analysed, the dataset that           *)
(* get_sample and generate_charts see afterwards is the one loaded before  *)
(* the failed call, or still none.                                         *)
(***************************************************************************)
C28_FailedCallKeepsData ==
    (ret'.op = "analyze_file" /\ ret'.raised # "") => data' = data

C28_DataUnchangedOnError == [][C28_FailedCallKeepsData]_vars

\* ---------------------------------------------------------------------------
\* C24: for any interleaving of two analyze_file calls on different files, on
\* two DataAnalyzers or on one, each call that has returned has returned what
\* it returns when it runs alone: the error of its own path, or the result of
\* its own file, its fields, total_rows and total_columns those of that file
\* and as many fields as total_columns.
\* ---------------------------------------------------------------------------
Alone(path) ==
    LET loaded == LoadData(disk, path)
    IN  IF loaded.raised # "" THEN {[raised |-> loaded.raised, val |-> None]}
        ELSE {[raised |-> "", val |-> Some(MakeResult(path, loaded.df[1], fs))] :
                 fs \in FieldAnalysesOutcomes(loaded.df[1], 0)}

ReturnedAsAlone(t) ==
    threads[t].pc = "done" =>
        /\ [raised |-> threads[t].raised, val |-> threads[t].val] \in Alone(threads[t].path)
        /\ threads[t].val # None =>
              Len(threads[t].val[1].fields) = threads[t].val[1].total_columns

C24_InterleavedCallsReturnAsAlone ==
    threads # <<>> => \A t \in Calls : ReturnedAsAlone(t)

\* The same, of two calls on two DataAnalyzers only.
SeparateInstancesReturnAsAlone ==
    (threads # <<>> /\ threads[1].self # threads[2].self) => \A t \in Calls : ReturnedAsAlone(t)

SeparateInstancesBothReturned ==
    /\ threads # <<>>
    /\ threads[1].self # threads[2].self
    /\ \A t \in Calls : threads[t].pc = "done" /\ threads[t].val # None

====
